---- MODULE Spec2Model ----
(***************************************************************************)
(* Verification model of nostr-openclaw-dm-plugin.                         *)
(*                                                                         *)
(* Two programs of the repository are modelled:                            *)
(*   - the OpenClaw daemon  (src/auto-reply-daemon-openclaw.js, 1-1231),   *)
(*     specifications Spec (poll callbacks may overlap) and SpecSeq (one   *)
(*     poll callback at a time), and SpecDispatch (the command dispatcher  *)
(*     detectAndExecuteCommand, 716-781, called on its own);               *)
(*   - the publish engine of the standalone daemon                         *)
(*     (src/unnamed/part_004, 44-127), specification SpecPublish.          *)
(* SpecHealth runs that engine over a longer time, SpecResult applies its   *)
(* per-relay result handling to one settlement at a time, and SpecBackoff  *)
(* exercises the pure backoff functions of both daemons.  SpecJoin is the  *)
(* OpenClaw daemon's publishWithRetry relay by relay, SpecDays the OpenClaw *)
(* daemon over days with its housekeeping timer, and SpecResolve the       *)
(* resolvers of the standalone daemon, of the robust listener              *)
(* (src/unnamed/part_000) and of the OpenClaw daemon over events of every  *)
(* kind.  SpecShared runs two overlapping publishWithRetry calls of the    *)
(* standalone daemon over the one relayRateLimits map they share.          *)
(*                                                                         *)
(* Time is in milliseconds since an arbitrary origin; Date.now() is the    *)
(* variable now.  null timestamps are modelled by Null (0): the code tests *)
(* them by truthiness, and Date.now() is never 0.                          *)
(* The cryptographic primitives, the relay pool and the gateway are        *)
(* capabilities outside the repository: a decryption succeeds exactly when *)
(* the ciphertext was produced under that scheme, a relay publish and a    *)
(* command handler resolve or reject nondeterministically.                 *)
(***************************************************************************)
EXTENDS Integers, Sequences, FiniteSets, TLC

VARIABLES
    feed,                 \* the events the relays hold: id -> catalogue entry
    now,                  \* Date.now()
    ticks,                \* number of clock advances so far (bounds the run)
    processedEvents,      \* Set of event ids                      (js:300)
    relayRateLimits,      \* Map url -> {backoffUntil, consecutiveFailures}
    senderConversations,  \* Map pubkey -> conversation state      (js:307)
    repliedEvents,        \* Set of event ids                      (js:308)
    commandCooldowns,     \* Map commandName -> lastExecutionTime  (js:311)
    stats,                \* totalDmsReceived, totalRepliesSent, ... (js:1014)
    cb,                   \* the poll callbacks in flight: position and locals
    running,              \* the daemon process is alive
    pipelineRuns,         \* history: id -> times the pipeline was entered
    decryptLog,           \* history: id -> schemes attempted, in order
    lastFailure,          \* history: the last failure caught, and its event
    lastAutoReplyAt,      \* history: sender -> time of the last auto-reply
    disp,                 \* SpecDispatch: the detectAndExecuteCommand call
    lastRun,              \* history: command -> its last settled action
    pub,                  \* SpecPublish: the publishWithRetry call
    bo                    \* SpecBackoff: inputs and results

vars == << feed, now, ticks, processedEvents, relayRateLimits, senderConversations,
           repliedEvents, commandCooldowns, stats, cb, running, pipelineRuns,
           decryptLog, lastFailure, lastAutoReplyAt, disp, lastRun, pub, bo >>

----------------------------------------------------------------------------
\* Bounds of the model

MaxEvents == 3
MaxOverlapEvents == 2
MaxBatch == 2
MaxTicks == 3
NumRelays == 3

----------------------------------------------------------------------------
\* Program constants

Null == 0
StartTime == 1000
Infinity == 2000000000

CONVERSATION_TIMEOUT_MS == 3600000
MAX_RETRIES == 3
BASE_BACKOFF_MS == 2000
MAX_BACKOFF_MS == 30000
JITTER_MS == 1000
DefaultCooldown == 30000

CommandTable == << "status", "task", "newSession", "restart", "help", "relays" >>
CommandNames == { CommandTable[i] : i \in 1..Len(CommandTable) }

CommandPattern(name) ==
    CASE name = "status"     -> "status"
      [] name = "task"       -> "current task"
      [] name = "newSession" -> "new session"
      [] name = "restart"    -> "restart"
      [] name = "help"       -> "help"
      [] name = "relays"     -> "relays"

COMMAND_COOLDOWNS ==
    [ name \in CommandNames |->
        CASE name = "restart"    -> 60000
          [] name = "status"     -> 10000
          [] name = "task"       -> 30000
          [] name = "newSession" -> 30000
          [] name = "help"       -> 5000
          [] name = "relays"     -> 30000 ]

AUTO_REPLY_TRIGGERS ==
    { "patch-in", "test", "hello", "hi", "howdy", "ping", "dm", "check", "verify" }

RELAYS == 1..NumRelays
PRIVATE_KEY_HEX == "sk"
MyPubkey == "me"
ALLOWED_SENDERS == { "A", "B" }

----------------------------------------------------------------------------
\* Inbound events.  An event id names one logical message; the relays hold
\* the events of one scenario, a list of catalogue entries.

Senders == { "A", "B", "X" }
TimeSteps == { 1800000 }
RandomSamples == { 0, 999 }
JitterSamples == { 0 }
Callbacks == { 1, 2 }
NoText == {}
NoCommand == "none"

Catalogue ==
    << [ pubkey |-> "A", scheme |-> "nip04", text |-> { "hello" } ],
       [ pubkey |-> "A", scheme |-> "nip44", text |-> { "hi" } ],
       [ pubkey |-> "A", scheme |-> "nip04", text |-> { "test" } ],
       [ pubkey |-> "A", scheme |-> "nip44", text |-> { "restart" } ],
       [ pubkey |-> "B", scheme |-> "nip44", text |-> { "restart", "test" } ],
       [ pubkey |-> "B", scheme |-> "none",  text |-> { "hello" } ],
       [ pubkey |-> "X", scheme |-> "nip44", text |-> { "hello" } ],
       [ pubkey |-> "A", scheme |-> "nip04", text |-> { "help", "status", "hello" } ] >>

Scenarios ==
    << << 1, 2, 3 >>, << 4, 5, 4 >>, << 1, 6, 7 >>, << 7, 8, 5 >>, << 1, 4, 8 >> >>

FeedOf(scenario, n) ==
    [ id \in 1..n |-> scenario[((id - 1) % Len(scenario)) + 1] ]

Feeds(n) == { FeedOf(Scenarios[k], n) : k \in 1..Len(Scenarios) }

EventIds == DOMAIN feed
Entry(id) == Catalogue[feed[id]]
EventPubkey(id) == Entry(id).pubkey
EventContent(id) ==
    [ scheme |-> Entry(id).scheme, from |-> Entry(id).pubkey,
      to |-> MyPubkey, text |-> Entry(id).text ]

PubkeyOf(privateKey) == IF privateKey = PRIVATE_KEY_HEX THEN MyPubkey ELSE "nobody"

----------------------------------------------------------------------------
\* Cryptographic capabilities (nostr-tools): a scheme decrypts exactly the
\* payloads produced under it for this pair of keys.

Nip44Decrypt(payload, privateKey, senderPubkey) ==
    LET ok == /\ payload.scheme = "nip44"
              /\ payload.from = senderPubkey
              /\ payload.to = PubkeyOf(privateKey)
    IN  [ ok |-> ok, text |-> IF ok THEN payload.text ELSE NoText ]

Nip04Decrypt(payload, privateKey, senderPubkey) ==
    LET ok == /\ payload.scheme = "nip04"
              /\ payload.from = senderPubkey
              /\ payload.to = PubkeyOf(privateKey)
    IN  [ ok |-> ok, text |-> IF ok THEN payload.text ELSE NoText ]

\* decryptDM of the OpenClaw daemon: NIP-44 first, NIP-04 in its catch block,
\* an Error when both throw.  tried lists the attempts in order.
DecryptDMNoFallback(content, privateKey, senderPubkey) ==
    LET r44 == Nip44Decrypt(content, privateKey, senderPubkey)
    IN  [ ok |-> r44.ok, text |-> r44.text, tried |-> << "nip44" >> ]

\* A mutant hands the payload on when both schemes threw.
DecryptDMSwallowsError(content, privateKey, senderPubkey) ==
    [ ok |-> TRUE, text |-> content.text, tried |-> << "nip44", "nip04" >> ]

DecryptDM(content, privateKey, senderPubkey) ==
    LET r44 == Nip44Decrypt(content, privateKey, senderPubkey)
        r04 == Nip04Decrypt(content, privateKey, senderPubkey)
    IN  IF r44.ok
        THEN [ ok |-> TRUE, text |-> r44.text, tried |-> << "nip44" >> ]
        ELSE IF r04.ok
             THEN [ ok |-> TRUE, text |-> r04.text, tried |-> << "nip44", "nip04" >> ]
             ELSE [ ok |-> FALSE, text |-> NoText, tried |-> << "nip44", "nip04" >> ]

\* encryptDM: NIP-44 first, NIP-04 in its catch block, an Error when both throw.
EncryptDM(ok44, ok04) ==
    [ ok |-> ok44 \/ ok04,
      scheme |-> IF ok44 THEN "nip44" ELSE IF ok04 THEN "nip04" ELSE "none" ]

----------------------------------------------------------------------------
\* Cooldown registry

EmptyCommandTimes == [ name \in CommandNames |-> Null ]

NewCommandState(commandName, t) ==
    [ lastReplyTime |-> Null, conversationStart |-> Null, messageCount |-> 0,
      lastCommandTime |-> [ EmptyCommandTimes EXCEPT ![commandName] = t ] ]

NewConversationState ==
    [ lastReplyTime |-> Null, conversationStart |-> Null, messageCount |-> 0,
      lastCommandTime |-> EmptyCommandTimes ]

CooldownTime(commandName) ==
    IF commandName \in DOMAIN COMMAND_COOLDOWNS /\ COMMAND_COOLDOWNS[commandName] # 0
    THEN COMMAND_COOLDOWNS[commandName] ELSE DefaultCooldown

CeilSeconds(ms) == (ms + 999) \div 1000

\* The two gates of isCommandOnCooldown.
GlobalGateBlocks(cooldowns, commandName, t) ==
    /\ commandName \in DOMAIN cooldowns
    /\ cooldowns[commandName] # Null
    /\ t - cooldowns[commandName] < CooldownTime(commandName)

SenderGateBlocks(convs, commandName, sender, t) ==
    /\ sender \in DOMAIN convs
    /\ convs[sender].lastCommandTime[commandName] # Null
    /\ t - convs[sender].lastCommandTime[commandName] < CooldownTime(commandName)

\* A mutant never finds a command on cooldown.
IsCommandOnCooldownNever(cooldowns, convs, commandName, sender, t) ==
    [ onCooldown |-> FALSE, reason |-> "none", remainingTime |-> 0 ]

\* A mutant also blocks a sender who is in an active conversation.
IsCommandOnCooldownOrActive(cooldowns, convs, commandName, sender, t) ==
    IF \/ GlobalGateBlocks(cooldowns, commandName, t)
       \/ SenderGateBlocks(convs, commandName, sender, t)
       \/ /\ sender \in DOMAIN convs
          /\ convs[sender].lastReplyTime # Null
          /\ t - convs[sender].lastReplyTime < CONVERSATION_TIMEOUT_MS
    THEN [ onCooldown |-> TRUE, reason |-> "active", remainingTime |-> 0 ]
    ELSE [ onCooldown |-> FALSE, reason |-> "none", remainingTime |-> 0 ]

\* A mutant still blocks when the elapsed time equals the cooldown.
IsCommandOnCooldownInclusive(cooldowns, convs, commandName, sender, t) ==
    IF /\ commandName \in DOMAIN cooldowns
       /\ cooldowns[commandName] # Null
       /\ t - cooldowns[commandName] <= CooldownTime(commandName)
    THEN [ onCooldown |-> TRUE, reason |-> "global",
           remainingTime |->
             CeilSeconds(CooldownTime(commandName) - (t - cooldowns[commandName])) ]
    ELSE [ onCooldown |-> FALSE, reason |-> "none", remainingTime |-> 0 ]

IsCommandOnCooldown(cooldowns, convs, commandName, sender, t) ==
    IF GlobalGateBlocks(cooldowns, commandName, t)
    THEN [ onCooldown |-> TRUE, reason |-> "global",
           remainingTime |->
             CeilSeconds(CooldownTime(commandName) - (t - cooldowns[commandName])) ]
    ELSE IF SenderGateBlocks(convs, commandName, sender, t)
         THEN [ onCooldown |-> TRUE, reason |-> "sender",
                remainingTime |->
                  CeilSeconds(CooldownTime(commandName)
                              - (t - convs[sender].lastCommandTime[commandName])) ]
         ELSE [ onCooldown |-> FALSE, reason |-> "none", remainingTime |-> 0 ]

\* markCommandExecuted: the global timestamp, and the sender's.
\* A mutant keeps the global timestamp of a command that already has one.
MarkedCooldownsKeepsFirst(cooldowns, commandName, t) ==
    [ n \in DOMAIN cooldowns \cup { commandName } |->
        IF n \in DOMAIN cooldowns THEN cooldowns[n] ELSE t ]

MarkedCooldowns(cooldowns, commandName, t) ==
    [ n \in DOMAIN cooldowns \cup { commandName } |->
        IF n = commandName THEN t ELSE cooldowns[n] ]

MarkedConversations(convs, commandName, sender, t) ==
    IF sender \notin DOMAIN convs
    THEN [ s \in DOMAIN convs \cup { sender } |->
             IF s = sender THEN NewCommandState(commandName, t) ELSE convs[s] ]
    ELSE [ convs EXCEPT ![sender].lastCommandTime[commandName] = t ]

\* The first entry of the command table whose pattern matches the message.
MatchingCommands(message) ==
    { i \in 1..Len(CommandTable) : CommandPattern(CommandTable[i]) \in message }

\* A mutant looks at the trigger words before the command table.
DetectCommandAfterTriggers(message) ==
    IF message \cap AUTO_REPLY_TRIGGERS # {} \/ MatchingCommands(message) = {}
    THEN NoCommand
    ELSE CommandTable[CHOOSE i \in MatchingCommands(message) :
                          \A j \in MatchingCommands(message) : i <= j]

\* A mutant takes the last matching entry of the table.
DetectCommandLastMatch(message) ==
    IF MatchingCommands(message) = {}
    THEN NoCommand
    ELSE CommandTable[CHOOSE i \in MatchingCommands(message) :
                          \A j \in MatchingCommands(message) : i >= j]

DetectCommand(message) ==
    IF MatchingCommands(message) = {}
    THEN NoCommand
    ELSE CommandTable[CHOOSE i \in MatchingCommands(message) :
                          \A j \in MatchingCommands(message) : i <= j]

\* handleHelpCommand has no failing path; every other handler can throw.
HandlerCanReject(commandName) == commandName # "help"

----------------------------------------------------------------------------
\* Conversation tracker

\* A mutant lets every sender through.
IsSenderAllowedAlways(senderPubkeyHex) == TRUE

IsSenderAllowed(senderPubkeyHex) ==
    \/ "*" \in ALLOWED_SENDERS
    \/ senderPubkeyHex \in ALLOWED_SENDERS

\* getConversationState: creates the entry when missing, resets it when the
\* conversation timed out.  Returns the map after the call.
GetConversationState(convs, sender, t) ==
    LET c1 == IF sender \in DOMAIN convs
              THEN convs
              ELSE [ s \in DOMAIN convs \cup { sender } |->
                       IF s = sender THEN NewConversationState ELSE convs[s] ]
        st == c1[sender]
    IN  IF st.lastReplyTime # Null /\ t - st.lastReplyTime > CONVERSATION_TIMEOUT_MS
        THEN [ c1 EXCEPT ![sender] =
                 [ st EXCEPT !.lastReplyTime = Null, !.conversationStart = Null,
                             !.messageCount = 0 ] ]
        ELSE c1

\* The comparison of shouldSendAutoReply that suppresses a trigger.
InActiveConversation(lastReplyTime, t) ==
    /\ lastReplyTime # Null
    /\ t - lastReplyTime < CONVERSATION_TIMEOUT_MS

\* A mutant does not consult the replied-event ledger.
ShouldSendAutoReplyIgnoresLedger(replied, convs, eventId, sender, t) ==
    LET c1 == GetConversationState(convs, sender, t)
    IN  [ send |-> ~InActiveConversation(c1[sender].lastReplyTime, t),
          convs |-> c1 ]

ShouldSendAutoReply(replied, convs, eventId, sender, t) ==
    IF eventId \in replied
    THEN [ send |-> FALSE, convs |-> convs ]
    ELSE LET c1 == GetConversationState(convs, sender, t)
         IN  [ send |-> ~InActiveConversation(c1[sender].lastReplyTime, t),
               convs |-> c1 ]

HasTrigger(message) == message \cap AUTO_REPLY_TRIGGERS # {}

\* The state update after a published auto-reply.
RepliedConversations(convs, sender, t) ==
    LET c1 == GetConversationState(convs, sender, t)
    IN  [ c1 EXCEPT ![sender].lastReplyTime = t,
                    ![sender].messageCount = @ + 1 ]

----------------------------------------------------------------------------
\* Backoff

Pow2(n) == 2 ^ n
Min(a, b) == IF a < b THEN a ELSE b

\* jitter(): Math.floor(Math.random() * 2 * JITTER_MS) - JITTER_MS, with
\* Math.random() = r / 1000, r in 0..999.
Jitter(r) == ((r * 2 * JITTER_MS) \div 1000) - JITTER_MS

\* Math.min(BASE_BACKOFF_MS * Math.pow(2, attempt), MAX_BACKOFF_MS).  The
\* exponent is held at 20 to stay inside the checker's integers: from there on
\* the product is far above the cap, so the minimum is the same.  A mutant
\* forgets the cap.
ExponentialDelayUncapped(attempt) == BASE_BACKOFF_MS * Pow2(Min(attempt, 20))

ExponentialDelay(attempt) ==
    Min(BASE_BACKOFF_MS * Pow2(Min(attempt, 20)), MAX_BACKOFF_MS)

\* backoffMs of the OpenClaw daemon's publishWithRetry.
BackoffMs(attempt, r) == ExponentialDelay(attempt) + Jitter(r)

\* getBackoffDelay of the standalone daemon: jitter = Math.random() * 1000.
GetBackoffDelay(attempt, r) == ExponentialDelay(attempt) + r

----------------------------------------------------------------------------
\* Publish engine, shared parts

\* The filter of a round: relays whose backoffUntil is still in the future
\* are skipped.
InBackoffNever(limits, url, t) == FALSE

InBackoff(limits, url, t) ==
    /\ url \in DOMAIN limits
    /\ limits[url].backoffUntil > t

AvailableRelays(limits, relays, t) == { url \in relays : ~InBackoff(limits, url, t) }

\* The OpenClaw daemon joins a round with Promise.all: the round resolves
\* when every attempted relay accepted, and rejects otherwise.
RoundResolvesAll(attempted, accepted) == attempted > 0 /\ accepted = attempted

\* The standalone daemon joins with Promise.allSettled and counts.
RoundSucceeds(successCount) == successCount > 0

----------------------------------------------------------------------------
\* The OpenClaw daemon: state after main() has set its timers

EmptyMap == << >>
Replies == { "auto", "result", "error", "cooldown" }

IdleCb ==
    [ pc |-> "idle", queue |-> << >>, ev |-> Null, cmd |-> NoCommand,
      reply |-> "none", attempt |-> 0, wakeAt |-> 0, attempted |-> 0,
      accepted |-> 0 ]

NoFailure == [ kind |-> "none", ev |-> Null ]
IdleDisp == [ pc |-> "idle", cmd |-> NoCommand, sender |-> "A", result |-> "none" ]
NoRun == [ at |-> Null, sender |-> "A", ok |-> FALSE ]
IdlePub ==
    [ pc |-> "idle", attempt |-> 0, wakeAt |-> 0, attempted |-> {},
      result |-> "none", successCount |-> 0 ]
NoBackoff == [ daemon |-> "none", attempt |-> 0, r |-> 0, exponential |-> 0, delay |-> 0 ]

InitWith(n) ==
    /\ feed \in Feeds(n)
    /\ now = StartTime
    /\ ticks = 0
    /\ processedEvents = {}
    /\ relayRateLimits = EmptyMap
    /\ senderConversations = EmptyMap
    /\ repliedEvents = {}
    /\ commandCooldowns = EmptyMap
    /\ stats = [ totalDmsReceived |-> 0, totalRepliesSent |-> 0,
                 commandsExecuted |-> 0, autoRepliesSent |-> 0 ]
    /\ cb = [ c \in Callbacks |-> IdleCb ]
    /\ running = TRUE
    /\ pipelineRuns = [ id \in EventIds |-> 0 ]
    /\ decryptLog = [ id \in EventIds |-> << >> ]
    /\ lastFailure = NoFailure
    /\ lastAutoReplyAt = [ s \in Senders |-> Null ]
    /\ disp = IdleDisp
    /\ lastRun = [ name \in CommandNames |-> NoRun ]
    /\ pub = IdlePub
    /\ bo = NoBackoff

Init == InitWith(MaxOverlapEvents)
InitSeq == InitWith(MaxEvents)

\* uniqueEvents: the first occurrence of each id, in delivery order.
RECURSIVE DedupById(_, _)
DedupById(events, seen) ==
    IF events = << >>
    THEN << >>
    ELSE IF Head(events) \in seen
         THEN DedupById(Tail(events), seen)
         ELSE << Head(events) >> \o DedupById(Tail(events), seen \cup { Head(events) })

\* processedEvents.has(event.id).  A mutant never finds the id.
AlreadyProcessedNever(processed, id) == FALSE

AlreadyProcessed(processed, id) == id \in processed

\* The head of the for loop, up to the first await: events already seen are
\* skipped, the others are marked seen; a sender outside the allow-list ends
\* the iteration; an allowed one is counted and its decryption is awaited.
RECURSIVE Scan(_, _)
Scan(queue, led) ==
    IF queue = << >>
    THEN [ ev |-> Null, queue |-> << >>, led |-> led ]
    ELSE LET id == Head(queue)
             marked == [ led EXCEPT !.processed = @ \cup { id },
                                    !.runs[id] = @ + 1 ]
         IN  IF AlreadyProcessed(led.processed, id)
             THEN Scan(Tail(queue), led)
             ELSE IF ~IsSenderAllowed(EventPubkey(id))
                  THEN Scan(Tail(queue), marked)
                  ELSE [ ev |-> id, queue |-> Tail(queue),
                         led |-> [ marked EXCEPT !.received = @ + 1 ] ]

Ledger ==
    [ processed |-> processedEvents, runs |-> pipelineRuns,
      received |-> stats.totalDmsReceived ]

\* continue / end of an iteration: the loop goes on with the rest of the batch.
Resume(c, queue, st) ==
    LET s == Scan(queue, Ledger)
    IN  /\ cb' = [ cb EXCEPT ![c] =
                     IF s.ev = Null
                     THEN IdleCb
                     ELSE [ IdleCb EXCEPT !.pc = "decrypt", !.queue = s.queue,
                                          !.ev = s.ev ] ]
        /\ processedEvents' = s.led.processed
        /\ pipelineRuns' = s.led.runs
        /\ stats' = [ st EXCEPT !.totalDmsReceived = s.led.received ]

\* The try/catch around the body of the poll callback.  A mutant lets the
\* exception escape the callback.
PollingLoopCatchesNothing == FALSE

PollingLoopCatches == TRUE

\* An exception that reaches the outer catch: the rest of the batch is
\* abandoned, unmarked.
Abandon(c, id, kind) ==
    /\ lastFailure' = [ kind |-> kind, ev |-> id ]
    /\ IF PollingLoopCatches
       THEN cb' = [ cb EXCEPT ![c] = IdleCb ] /\ running' = running
       ELSE cb' = cb /\ running' = FALSE

\* What one querySync can return: any sequence of known events, repeats
\* included (the same event from several relays).
RECURSIVE SeqsUpTo(_)
SeqsUpTo(n) ==
    IF n = 0
    THEN { << >> }
    ELSE LET shorter == SeqsUpTo(n - 1)
         IN  shorter \cup { Append(q, id) : q \in shorter, id \in EventIds }

Batches == SeqsUpTo(MaxBatch)

----------------------------------------------------------------------------
\* Housekeeping (cleanupOldState)

CLEANUP_THRESHOLD == 86400000
PROCESSED_EVENTS_LIMIT == 10000

\* cleanupOldState reads startTime, a let binding local to main(): the read
\* throws a ReferenceError before any state is touched, and the timer callback
\* catches it.
StartTimeInScope == FALSE

ClearedProcessedEvents(processed, t) ==
    IF t - StartTime > CLEANUP_THRESHOLD /\ Cardinality(processed) > PROCESSED_EVENTS_LIMIT
    THEN {}
    ELSE processed

SweptConversations(convs, t) ==
    LET kept == { s \in DOMAIN convs :
                    \/ convs[s].lastReplyTime = Null
                    \/ ~(t - convs[s].lastReplyTime > CLEANUP_THRESHOLD) }
    IN  [ s \in kept |-> convs[s] ]

\* The test of the relay-rate-limit sweep.
SweepRemoves(rateLimit, t) == rateLimit.backoffUntil < t

SweptRelayRateLimits(limits, t) ==
    LET kept == { url \in DOMAIN limits : ~SweepRemoves(limits[url], t) }
    IN  [ url \in kept |-> limits[url] ]

SweptCommandCooldowns(cooldowns, t) ==
    LET kept == { n \in DOMAIN cooldowns :
                    ~(t - cooldowns[n] > CooldownTime(n) * 10) }
    IN  [ n \in kept |-> cooldowns[n] ]

----------------------------------------------------------------------------
\* The poll callback of the OpenClaw daemon, one action per await

\* Parts of the state owned by the other programs of the model.
OtherPrograms == << feed, disp, lastRun, pub, bo, relayRateLimits >>

\* markCommandExecuted is reached only when the handler resolved.
MarksExecuted(ok) == ok

\* The try/catch around command.handler() in detectAndExecuteCommand.  A
\* mutant lets the handler's exception leave the dispatcher.
DispatcherCatchesNothing == FALSE

DispatcherCatches == TRUE

\* setInterval fires: the callback awaits pool.querySync.
StartPoll(c) ==
    /\ running
    /\ cb[c].pc = "idle"
    /\ \A d \in Callbacks : d < c => cb[d].pc # "idle"
    /\ cb' = [ cb EXCEPT ![c].pc = "query" ]
    /\ UNCHANGED << now, ticks, processedEvents, senderConversations,
                    repliedEvents, commandCooldowns, stats, running,
                    pipelineRuns, decryptLog, lastFailure, lastAutoReplyAt,
                    OtherPrograms >>

\* The same, when the previous callback has always finished before.
StartPollAlone(c) ==
    /\ \A d \in Callbacks : cb[d].pc = "idle"
    /\ StartPoll(c)

QueryReturns(c, events) ==
    /\ running
    /\ cb[c].pc = "query"
    /\ Resume(c, DedupById(events, {}), stats)
    /\ UNCHANGED << now, ticks, senderConversations, repliedEvents,
                    commandCooldowns, running, decryptLog, lastFailure,
                    lastAutoReplyAt, OtherPrograms >>

QueryRejects(c) ==
    /\ running
    /\ cb[c].pc = "query"
    /\ IF PollingLoopCatches
       THEN cb' = [ cb EXCEPT ![c] = IdleCb ] /\ running' = running
       ELSE cb' = cb /\ running' = FALSE
    /\ UNCHANGED << now, ticks, processedEvents, senderConversations,
                    repliedEvents, commandCooldowns, stats, pipelineRuns,
                    decryptLog, lastFailure, lastAutoReplyAt, OtherPrograms >>

\* decryptDM settles; on success the command table is consulted, then the
\* trigger list, all before the next await.
DecryptReturns(c) ==
    LET e == cb[c].ev
        sender == EventPubkey(e)
        d == DecryptDM(EventContent(e), PRIVATE_KEY_HEX, sender)
        cmd == DetectCommand(d.text)
        auto == ShouldSendAutoReply(repliedEvents, senderConversations, e, sender, now)
    IN  /\ running
        /\ cb[c].pc = "decrypt"
        /\ decryptLog' = [ decryptLog EXCEPT ![e] = @ \o d.tried ]
        /\ IF ~d.ok
           THEN /\ Resume(c, cb[c].queue, stats)
                /\ lastFailure' = [ kind |-> "decrypt", ev |-> e ]
                /\ UNCHANGED senderConversations
           ELSE IF cmd # NoCommand
           THEN /\ cb' = [ cb EXCEPT ![c].cmd = cmd,
                             ![c].pc =
                               IF IsCommandOnCooldown(commandCooldowns,
                                     senderConversations, cmd, sender, now).onCooldown
                               THEN "encrypt" ELSE "handler",
                             ![c].reply =
                               IF IsCommandOnCooldown(commandCooldowns,
                                     senderConversations, cmd, sender, now).onCooldown
                               THEN "cooldown" ELSE "none" ]
                /\ UNCHANGED << processedEvents, pipelineRuns, stats,
                                senderConversations, lastFailure >>
           ELSE IF ~HasTrigger(d.text)
           THEN /\ Resume(c, cb[c].queue, stats)
                /\ UNCHANGED << senderConversations, lastFailure >>
           ELSE /\ senderConversations' = auto.convs
                /\ UNCHANGED lastFailure
                /\ IF auto.send
                   THEN /\ cb' = [ cb EXCEPT ![c].pc = "status" ]
                        /\ UNCHANGED << processedEvents, pipelineRuns, stats >>
                   ELSE Resume(c, cb[c].queue, stats)
        /\ UNCHANGED << now, ticks, repliedEvents, commandCooldowns, running,
                        lastAutoReplyAt, OtherPrograms >>

\* command.handler() settles inside detectAndExecuteCommand.
HandlerReturns(c, ok) ==
    LET e == cb[c].ev
        sender == EventPubkey(e)
        cmd == cb[c].cmd
    IN  /\ running
        /\ cb[c].pc = "handler"
        /\ ok \/ HandlerCanReject(cmd)
        /\ IF MarksExecuted(ok)
           THEN /\ commandCooldowns' = MarkedCooldowns(commandCooldowns, cmd, now)
                /\ senderConversations' =
                     MarkedConversations(senderConversations, cmd, sender, now)
           ELSE UNCHANGED << commandCooldowns, senderConversations >>
        /\ IF ok \/ DispatcherCatches
           THEN /\ cb' = [ cb EXCEPT ![c].pc = "encrypt",
                                     ![c].reply = IF ok THEN "result" ELSE "error" ]
                /\ lastFailure' =
                     IF ok THEN lastFailure ELSE [ kind |-> "command", ev |-> e ]
                /\ UNCHANGED running
           ELSE Abandon(c, e, "command")
        /\ UNCHANGED << now, ticks, processedEvents, repliedEvents, stats,
                        pipelineRuns, decryptLog, lastAutoReplyAt, OtherPrograms >>

\* checkOpenClawStatus settles (it catches its own failures).
StatusReturns(c) ==
    /\ running
    /\ cb[c].pc = "status"
    /\ cb' = [ cb EXCEPT ![c].pc = "encrypt", ![c].reply = "auto" ]
    /\ UNCHANGED << now, ticks, processedEvents, senderConversations,
                    repliedEvents, commandCooldowns, stats, running,
                    pipelineRuns, decryptLog, lastFailure, lastAutoReplyAt,
                    OtherPrograms >>

\* encryptDM settles; its Error is not caught inside the iteration.
EncryptReturns(c, ok44, ok04) ==
    /\ running
    /\ cb[c].pc = "encrypt"
    /\ IF EncryptDM(ok44, ok04).ok
       THEN /\ cb' = [ cb EXCEPT ![c].pc = "publish", ![c].attempt = 0 ]
            /\ UNCHANGED << lastFailure, running >>
       ELSE Abandon(c, cb[c].ev, "encrypt")
    /\ UNCHANGED << now, ticks, processedEvents, senderConversations,
                    repliedEvents, commandCooldowns, stats, pipelineRuns,
                    decryptLog, lastAutoReplyAt, OtherPrograms >>

----------------------------------------------------------------------------
\* publishWithRetry of the OpenClaw daemon, awaited by the poll callback

\* A mutant records the reply in the caller's catch block as well.
PublishRoundStampsOnFailure(c, accepted, r) ==
    LET e == cb[c].ev
        sender == EventPubkey(e)
        isCommand == cb[c].reply # "auto"
        available == AvailableRelays(relayRateLimits, RELAYS, now)
        counted == [ stats EXCEPT
                       !.commandsExecuted = IF isCommand THEN @ + 1 ELSE @,
                       !.autoRepliesSent = IF isCommand THEN @ ELSE @ + 1,
                       !.totalRepliesSent = @ + 1 ]
    IN  /\ running
        /\ cb[c].pc = "publish"
        /\ accepted \subseteq available
        /\ IF RoundResolvesAll(Cardinality(available), Cardinality(accepted))
           THEN /\ Resume(c, cb[c].queue, counted)
                /\ UNCHANGED lastFailure
                /\ IF isCommand
                   THEN UNCHANGED << senderConversations, repliedEvents,
                                     lastAutoReplyAt >>
                   ELSE /\ senderConversations' =
                             RepliedConversations(senderConversations, sender, now)
                        /\ repliedEvents' = repliedEvents \cup { e }
                        /\ lastAutoReplyAt' = [ lastAutoReplyAt EXCEPT ![sender] = now ]
           ELSE /\ IF cb[c].attempt < MAX_RETRIES - 1
                   THEN /\ cb' = [ cb EXCEPT ![c].pc = "backoff",
                                     ![c].wakeAt = now + BackoffMs(cb[c].attempt, r),
                                     ![c].attempted = Cardinality(available),
                                     ![c].accepted = Cardinality(accepted) ]
                        /\ UNCHANGED << processedEvents, pipelineRuns, stats,
                                        lastFailure >>
                        /\ UNCHANGED << senderConversations, repliedEvents >>
                   ELSE /\ Resume(c, cb[c].queue, stats)
                        /\ lastFailure' = [ kind |-> "publish", ev |-> e ]
                        /\ senderConversations' =
                             RepliedConversations(senderConversations, sender, now)
                        /\ repliedEvents' = repliedEvents \cup { e }
                /\ UNCHANGED lastAutoReplyAt
        /\ UNCHANGED << now, ticks, commandCooldowns, running, decryptLog,
                        OtherPrograms >>

\* One round of the for loop: the filter, the relay attempts (accepted is
\* the set of relays whose pool.publish resolved; an empty filtered set throws
\* before any attempt), the resumption of await Promise.all: return true, or
\* the catch block with its backoff, or the rethrow of the last attempt; then
\* the caller's state update, or its catch.  A callback waiting in backoff
\* keeps the tally of the round that failed.
PublishRound(c, accepted, r) ==
    LET e == cb[c].ev
        sender == EventPubkey(e)
        isCommand == cb[c].reply # "auto"
        available == AvailableRelays(relayRateLimits, RELAYS, now)
        counted == [ stats EXCEPT
                       !.commandsExecuted = IF isCommand THEN @ + 1 ELSE @,
                       !.autoRepliesSent = IF isCommand THEN @ ELSE @ + 1,
                       !.totalRepliesSent = @ + 1 ]
    IN  /\ running
        /\ cb[c].pc = "publish"
        /\ accepted \subseteq available
        /\ IF RoundResolvesAll(Cardinality(available), Cardinality(accepted))
           THEN /\ Resume(c, cb[c].queue, counted)
                /\ UNCHANGED lastFailure
                /\ IF isCommand
                   THEN UNCHANGED << senderConversations, repliedEvents,
                                     lastAutoReplyAt >>
                   ELSE /\ senderConversations' =
                             RepliedConversations(senderConversations, sender, now)
                        /\ repliedEvents' = repliedEvents \cup { e }
                        /\ lastAutoReplyAt' = [ lastAutoReplyAt EXCEPT ![sender] = now ]
           ELSE /\ IF cb[c].attempt < MAX_RETRIES - 1
                   THEN /\ cb' = [ cb EXCEPT ![c].pc = "backoff",
                                     ![c].wakeAt = now + BackoffMs(cb[c].attempt, r),
                                     ![c].attempted = Cardinality(available),
                                     ![c].accepted = Cardinality(accepted) ]
                        /\ UNCHANGED << processedEvents, pipelineRuns, stats,
                                        lastFailure >>
                   ELSE /\ Resume(c, cb[c].queue, stats)
                        /\ lastFailure' = [ kind |-> "publish", ev |-> e ]
                /\ UNCHANGED << senderConversations, repliedEvents, lastAutoReplyAt >>
        /\ UNCHANGED << now, ticks, commandCooldowns, running, decryptLog,
                        OtherPrograms >>

\* setTimeout(resolve, backoffMs) fires: the for loop starts the next attempt.
BackoffDone(c) ==
    /\ running
    /\ cb[c].pc = "backoff"
    /\ now >= cb[c].wakeAt
    /\ cb' = [ cb EXCEPT ![c].pc = "publish", ![c].attempt = @ + 1,
                         ![c].wakeAt = 0, ![c].attempted = 0, ![c].accepted = 0 ]
    /\ UNCHANGED << now, ticks, processedEvents, senderConversations,
                    repliedEvents, commandCooldowns, stats, running,
                    pipelineRuns, decryptLog, lastFailure, lastAutoReplyAt,
                    OtherPrograms >>

\* The 5-minute timer: try { cleanupOldState() } catch { log }.
CleanupTimer ==
    /\ running
    /\ IF StartTimeInScope
       THEN /\ processedEvents' = ClearedProcessedEvents(processedEvents, now)
            /\ senderConversations' = SweptConversations(senderConversations, now)
            /\ relayRateLimits' = SweptRelayRateLimits(relayRateLimits, now)
            /\ commandCooldowns' = SweptCommandCooldowns(commandCooldowns, now)
       ELSE UNCHANGED << processedEvents, senderConversations, relayRateLimits,
                         commandCooldowns >>
    /\ UNCHANGED << feed, now, ticks, repliedEvents, stats, cb, running,
                    pipelineRuns, decryptLog, lastFailure, lastAutoReplyAt, disp,
                    lastRun, pub, bo >>

\* Time passes.
Tick(d) ==
    /\ ticks < MaxTicks
    /\ now' = now + d
    /\ ticks' = ticks + 1
    /\ UNCHANGED << feed, processedEvents, relayRateLimits,
                    senderConversations, repliedEvents, commandCooldowns, stats,
                    cb, running, pipelineRuns, decryptLog, lastFailure,
                    lastAutoReplyAt, disp, lastRun, pub, bo >>

PipelineStep(c) ==
    \/ \E events \in Batches : QueryReturns(c, events)
    \/ QueryRejects(c)
    \/ DecryptReturns(c)
    \/ \E ok \in BOOLEAN : HandlerReturns(c, ok)
    \/ StatusReturns(c)
    \/ \E ok44, ok04 \in BOOLEAN : EncryptReturns(c, ok44, ok04)
    \/ \E accepted \in SUBSET RELAYS, r \in JitterSamples : PublishRound(c, accepted, r)
    \/ BackoffDone(c)

\* The daemon as written: a poll callback can start while an earlier one is
\* still suspended.
Next ==
    \/ \E c \in Callbacks : StartPoll(c)
    \/ \E c \in Callbacks : PipelineStep(c)
    \/ CleanupTimer
    \/ \E d \in TimeSteps : Tick(d)

Spec == Init /\ [][Next]_vars

\* The daemon when every poll callback finishes before the next one starts.
NextSeq ==
    \/ \E c \in Callbacks : StartPollAlone(c)
    \/ \E c \in Callbacks : PipelineStep(c)
    \/ CleanupTimer
    \/ \E d \in TimeSteps : Tick(d)

SpecSeq == InitSeq /\ [][NextSeq]_vars

----------------------------------------------------------------------------
\* detectAndExecuteCommand called directly, one call at a time

DispatchMessages == { { "restart" }, { "help", "status" }, { "hello" } }
DispatchSenders == { "A", "B" }
DispatchSteps == { 30000 }

DaemonState ==
    << feed, processedEvents, relayRateLimits, repliedEvents, stats, cb, running,
       pipelineRuns, decryptLog, lastFailure, lastAutoReplyAt >>

\* The call up to its first await: the table scan, the cooldown check, the
\* start of the handler.
Invoke(message, sender) ==
    LET cmd == DetectCommand(message)
        cooldownStatus == IsCommandOnCooldown(commandCooldowns, senderConversations,
                                              cmd, sender, now)
    IN  /\ disp.pc = "idle"
        /\ disp' = IF cmd = NoCommand
                   THEN [ pc |-> "idle", cmd |-> NoCommand, sender |-> sender,
                          result |-> "null" ]
                   ELSE IF cooldownStatus.onCooldown
                        THEN [ pc |-> "idle", cmd |-> cmd, sender |-> sender,
                               result |-> "cooldown" ]
                        ELSE [ pc |-> "handler", cmd |-> cmd, sender |-> sender,
                               result |-> "none" ]
        /\ UNCHANGED << now, ticks, senderConversations, commandCooldowns, lastRun,
                        pub, bo, DaemonState >>

\* The handler settles: markCommandExecuted and the result, or the catch block
\* and the error string.
HandlerSettles(ok) ==
    /\ disp.pc = "handler"
    /\ ok \/ HandlerCanReject(disp.cmd)
    /\ IF MarksExecuted(ok)
       THEN /\ commandCooldowns' = MarkedCooldowns(commandCooldowns, disp.cmd, now)
            /\ senderConversations' =
                 MarkedConversations(senderConversations, disp.cmd, disp.sender, now)
       ELSE UNCHANGED << commandCooldowns, senderConversations >>
    /\ disp' = [ disp EXCEPT !.pc = "idle",
                             !.result = IF ok THEN "result"
                                        ELSE IF DispatcherCatches THEN "error"
                                        ELSE "thrown" ]
    /\ lastRun' = [ lastRun EXCEPT ![disp.cmd] =
                      [ at |-> now, sender |-> disp.sender, ok |-> ok ] ]
    /\ UNCHANGED << now, ticks, pub, bo, DaemonState >>

NextDispatch ==
    \/ \E message \in DispatchMessages, sender \in DispatchSenders :
          Invoke(message, sender)
    \/ \E ok \in BOOLEAN : HandlerSettles(ok)
    \/ \E d \in DispatchSteps : Tick(d)

InitIdle == InitWith(0)

SpecDispatch == InitIdle /\ [][NextDispatch]_vars

----------------------------------------------------------------------------
\* publishWithRetry of the standalone daemon, one call at a time, and the
\* relay-rate-limit sweep of cleanupOldState

RelayOutcomes == { "ok", "rate", "permanent", "other" }
PublishSteps == { 2000, 30000 }
ALL_LIMITED_WAIT_MS == 30000

\* lastErrorTime is written and never read; it is left out of the entries.
PermanentEntry == [ backoffUntil |-> Infinity, consecutiveFailures |-> Infinity ]

IsPermanent(limits, url) ==
    url \in DOMAIN limits /\ limits[url].backoffUntil = Infinity

ConsecutiveFailures(limits, url) ==
    IF url \in DOMAIN limits THEN limits[url].consecutiveFailures ELSE 0

PlusOne(n) == IF n = Infinity THEN Infinity ELSE n + 1

\* A mutant leaves the entry of an accepting relay in place.
ProcessedResultsKeepsEntry(limits, available, results, r, t) ==
    LET kept == DOMAIN limits
                \cup { url \in available : results[url] \in { "rate", "permanent" } }
    IN  [ url \in kept |->
            IF url \notin available \/ results[url] \in { "ok", "other" }
            THEN limits[url]
            ELSE IF results[url] = "rate"
                 THEN [ backoffUntil |->
                          t + GetBackoffDelay(ConsecutiveFailures(limits, url), r),
                        consecutiveFailures |->
                          PlusOne(ConsecutiveFailures(limits, url)) ]
                 ELSE PermanentEntry ]

\* A mutant counts every rejection as a rate-limit failure.
ProcessedResultsCountsOther(limits, available, results, r, t) ==
    LET kept == (DOMAIN limits \cup { url \in available : results[url] # "ok" })
                \ { url \in available : results[url] = "ok" }
    IN  [ url \in kept |->
            IF url \notin available
            THEN limits[url]
            ELSE IF results[url] \in { "rate", "other" }
                 THEN [ backoffUntil |->
                          t + GetBackoffDelay(ConsecutiveFailures(limits, url), r),
                        consecutiveFailures |->
                          PlusOne(ConsecutiveFailures(limits, url)) ]
                 ELSE PermanentEntry ]

\* pub.forEach: the health entries after the outcomes of one round.
ProcessedResults(limits, available, results, r, t) ==
    LET kept == (DOMAIN limits \cup { url \in available : results[url] \in { "rate", "permanent" } })
                \ { url \in available : results[url] = "ok" }
    IN  [ url \in kept |->
            IF url \notin available \/ results[url] = "other"
            THEN limits[url]
            ELSE IF results[url] = "rate"
                 THEN [ backoffUntil |->
                          t + GetBackoffDelay(ConsecutiveFailures(limits, url), r),
                        consecutiveFailures |->
                          PlusOne(ConsecutiveFailures(limits, url)) ]
                 ELSE PermanentEntry ]

SuccessCount(available, results) ==
    Cardinality({ url \in available : results[url] = "ok" })

PublishFrame ==
    << feed, ticks, processedEvents, senderConversations, repliedEvents,
       commandCooldowns, stats, cb, running, pipelineRuns, decryptLog,
       lastFailure, lastAutoReplyAt, disp, lastRun, bo >>

\* sendReply calls publishWithRetry.
PublishCall ==
    /\ pub.pc = "idle"
    /\ pub' = [ IdlePub EXCEPT !.pc = "round" ]
    /\ UNCHANGED << now, relayRateLimits, PublishFrame >>

\* One pass of the try block: the filter; with nothing left, the 30 s wait
\* and continue; otherwise the attempts, Promise.allSettled, the bookkeeping
\* and return successCount > 0.
PublishAttempt(results, r) ==
    LET available == AvailableRelays(relayRateLimits, RELAYS, now)
    IN  /\ pub.pc = "round"
        /\ IF available = {}
           THEN /\ pub' = [ pub EXCEPT !.pc = "penalty", !.attempted = {},
                                       !.wakeAt = now + ALL_LIMITED_WAIT_MS ]
                /\ UNCHANGED relayRateLimits
           ELSE /\ relayRateLimits' =
                     ProcessedResults(relayRateLimits, available, results, r, now)
                /\ pub' = [ pub EXCEPT
                              !.pc = "idle", !.attempted = available,
                              !.successCount = SuccessCount(available, results),
                              !.result =
                                IF RoundSucceeds(SuccessCount(available, results))
                                THEN "true" ELSE "false" ]
        /\ UNCHANGED << now, PublishFrame >>

\* pool.publish throws inside the try block: the catch block waits the
\* backoff unless this was the last attempt.
PublishThrows(r) ==
    /\ pub.pc = "round"
    /\ AvailableRelays(relayRateLimits, RELAYS, now) # {}
    /\ pub' = IF pub.attempt < MAX_RETRIES - 1
              THEN [ pub EXCEPT !.pc = "waiting", !.attempted = {},
                                !.wakeAt = now + GetBackoffDelay(pub.attempt, r) ]
              ELSE [ pub EXCEPT !.pc = "idle", !.attempted = {},
                                !.result = "false" ]
    /\ UNCHANGED << now, relayRateLimits, PublishFrame >>

\* A wait ends (the backoff of the catch block, pc "waiting", or the 30 s of
\* the empty filtered set followed by continue, pc "penalty"): attempt++ and
\* the loop test; after the last attempt the function returns false.
PublishWakes ==
    /\ pub.pc \in { "waiting", "penalty" }
    /\ now >= pub.wakeAt
    /\ pub' = IF pub.attempt + 1 < MAX_RETRIES
              THEN [ pub EXCEPT !.pc = "round", !.attempt = @ + 1, !.wakeAt = 0 ]
              ELSE [ pub EXCEPT !.pc = "idle", !.attempt = @ + 1, !.wakeAt = 0,
                                !.result = "false" ]
    /\ UNCHANGED << now, relayRateLimits, PublishFrame >>

\* The loop over relayRateLimits in cleanupOldState.
SweepRelayRateLimits ==
    /\ relayRateLimits' = SweptRelayRateLimits(relayRateLimits, now)
    /\ UNCHANGED << now, pub, PublishFrame >>

NextPublish ==
    \/ PublishCall
    \/ \E results \in [ RELAYS -> RelayOutcomes ], r \in JitterSamples :
          PublishAttempt(results, r)
    \/ \E r \in JitterSamples : PublishThrows(r)
    \/ PublishWakes
    \/ SweepRelayRateLimits
    \/ \E d \in PublishSteps : Tick(d)

SpecPublish == InitIdle /\ [][NextPublish]_vars

----------------------------------------------------------------------------
\* The backoff computations of both daemons, on their own

MaxAttempt == 7
BackoffSamples == { 50 * k : k \in 0..19 } \cup { 1, 499, 501, 998, 999 }

BackoffFrame ==
    << feed, now, ticks, processedEvents, relayRateLimits, senderConversations,
       repliedEvents, commandCooldowns, stats, cb, running, pipelineRuns,
       decryptLog, lastFailure, lastAutoReplyAt, disp, lastRun, pub >>

\* The catch block of the OpenClaw daemon's publishWithRetry computes
\* backoffMs.
ComputeBackoffMs(attempt, r) ==
    /\ bo' = [ daemon |-> "openclaw", attempt |-> attempt, r |-> r,
               exponential |-> ExponentialDelay(attempt),
               delay |-> BackoffMs(attempt, r) ]
    /\ UNCHANGED BackoffFrame

\* getBackoffDelay of the standalone daemon.
ComputeGetBackoffDelay(attempt, r) ==
    /\ bo' = [ daemon |-> "standalone", attempt |-> attempt, r |-> r,
               exponential |-> ExponentialDelay(attempt),
               delay |-> GetBackoffDelay(attempt, r) ]
    /\ UNCHANGED BackoffFrame

NextBackoff ==
    \/ \E attempt \in 0..MaxAttempt, r \in BackoffSamples : ComputeBackoffMs(attempt, r)
    \/ \E attempt \in 0..MaxAttempt, r \in BackoffSamples :
          ComputeGetBackoffDelay(attempt, r)

SpecBackoff == InitIdle /\ [][NextBackoff]_vars

----------------------------------------------------------------------------
\* Properties

InPipeline(c) == cb[c].pc \notin { "idle", "query" }

\* C1: for any event id, however often it is delivered, the decision pipeline
\* is entered at most once, and exactly once when the id is marked seen; an id
\* is marked seen before any decryption is attempted for it, decryptDM is
\* called at most once for it, every event a callback is working on is marked,
\* and no two callbacks work on the same id.
C1_PipelineOncePerEvent ==
    /\ \A id \in EventIds :
         /\ pipelineRuns[id] <= 1
         /\ (pipelineRuns[id] = 1) <=> (id \in processedEvents)
         /\ decryptLog[id] # << >> => id \in processedEvents
         /\ decryptLog[id] \in { << >>, << "nip44" >>, << "nip44", "nip04" >> }
    /\ \A c \in Callbacks : InPipeline(c) => cb[c].ev \in processedEvents
    /\ \A c, d \in Callbacks : c # d /\ InPipeline(c) /\ InPipeline(d) => cb[c].ev # cb[d].ev

\* A callback holds in the rest of its batch an event that an earlier pass
\* has already marked and decrypted: a redelivery about to be skipped.
C1_Witness ==
    \E c \in Callbacks :
        /\ InPipeline(c)
        /\ \E i \in 1..Len(cb[c].queue) :
             /\ cb[c].queue[i] \in processedEvents
             /\ decryptLog[cb[c].queue[i]] # << >>
             /\ pipelineRuns[cb[c].queue[i]] = 1

\* The step in which callback c publishes an auto-reply to sender s.
AutoReplyPublished(c, s) ==
    /\ cb[c].pc = "publish"
    /\ cb[c].reply = "auto"
    /\ EventPubkey(cb[c].ev) = s
    /\ stats'.autoRepliesSent = stats.autoRepliesSent + 1

\* The step in which callback c decides on a decrypted trigger message of
\* sender s that matches no command.
TriggerDecided(c, s) ==
    /\ cb[c].pc = "decrypt"
    /\ cb'[c] # cb[c]
    /\ EventPubkey(cb[c].ev) = s
    /\ Entry(cb[c].ev).scheme # "none"
    /\ DetectCommand(Entry(cb[c].ev).text) = NoCommand
    /\ HasTrigger(Entry(cb[c].ev).text)

\* C2: with poll callbacks running one after another, any two auto-replies
\* sent to the same sender are more than CONVERSATION_TIMEOUT_MS apart, and a
\* trigger decided more than CONVERSATION_TIMEOUT_MS after the sender's last
\* auto-reply is answered.
C2_OneAutoReplyPerWindow ==
    [][ \A c \in Callbacks, s \in Senders :
          /\ (AutoReplyPublished(c, s) /\ lastAutoReplyAt[s] # Null)
               => now - lastAutoReplyAt[s] > CONVERSATION_TIMEOUT_MS
          /\ ( /\ TriggerDecided(c, s)
               /\ lastAutoReplyAt[s] # Null
               /\ now - lastAutoReplyAt[s] > CONVERSATION_TIMEOUT_MS )
               => cb'[c].pc = "status" ]_vars

\* The step in which detectAndExecuteCommand is invoked for command name
\* while the last settled action of that command lies inside its cooldown
\* window.
InvokedInsideWindow(name) ==
    /\ disp.pc = "idle"
    /\ disp' # disp
    /\ disp'.cmd = name
    /\ lastRun[name].at # Null
    /\ now - lastRun[name].at < CooldownTime(name)

BlockedByCooldown == disp'.pc = "idle" /\ disp'.result = "cooldown"

\* C3: when a command is invoked again by the same sender inside the
\* command's cooldown window after its action ran, the call returns the
\* cooldown notice and the action is not started a second time.
C3_SameSenderBlockedInWindow ==
    [][ \A name \in CommandNames :
          (InvokedInsideWindow(name) /\ disp'.sender = lastRun[name].sender)
            => BlockedByCooldown ]_vars

\* C4: when a command is invoked by another sender inside the command's
\* cooldown window after one sender's action ran, the call returns the
\* cooldown notice and the action is not started.
C4_OtherSenderBlockedInWindow ==
    [][ \A name \in CommandNames :
          (InvokedInsideWindow(name) /\ disp'.sender # lastRun[name].sender)
            => BlockedByCooldown ]_vars

\* C5: a publish round in which at least one attempted relay accepted the
\* event reports success: in the OpenClaw daemon no callback waits for a retry
\* after a round with an acceptance, and in the standalone daemon a call that
\* returned after such a round returned true.
C5_AtLeastOneOfN ==
    /\ \A c \in Callbacks : cb[c].pc = "backoff" => cb[c].accepted = 0
    /\ (pub.pc = "idle" /\ pub.successCount >= 1) => pub.result = "true"

\* C6: a relay whose health entry is permanent (backoffUntil = Infinity)
\* keeps that entry through every later step, the sweep of relay rate limits
\* included, and no later round attempts it.
C6_PermanentNeverAttempted ==
    [][ \A url \in RELAYS :
          IsPermanent(relayRateLimits, url)
            => /\ IsPermanent(relayRateLimits', url)
               /\ (pub.pc = "round" /\ pub'.pc = "idle") => url \notin pub'.attempted
       ]_vars

\* A relay is permanent and the round that just ended attempted the others
\* without it.
C6_Witness ==
    \E url \in RELAYS :
        /\ IsPermanent(relayRateLimits, url)
        /\ pub.pc = "idle"
        /\ pub.attempted # {}
        /\ url \notin pub.attempted

C8_BackoffBounded ==
    /\ [](bo.daemon # "none" =>
            /\ bo.exponential <= MAX_BACKOFF_MS
            /\ bo.exponential >= BASE_BACKOFF_MS
            /\ (bo.attempt <= 3 => bo.exponential = BASE_BACKOFF_MS * Pow2(bo.attempt))
            /\ (bo.attempt > 3 => bo.exponential = MAX_BACKOFF_MS)
            /\ bo.delay >= 0
            /\ bo.delay - bo.exponential \in -JITTER_MS..JITTER_MS)
    /\ [][ (bo.daemon # "none" /\ bo'.attempt >= bo.attempt)
             => bo'.exponential >= bo.exponential ]_vars

\* The cap is reached and the jitter is at its minimum.
C8_Witness ==
    /\ bo.daemon = "openclaw"
    /\ bo.attempt >= 4
    /\ bo.exponential = MAX_BACKOFF_MS
    /\ bo.r = 0
    /\ bo.delay = MAX_BACKOFF_MS - JITTER_MS

\* C9: when a command handler settles, by result or by exception, the poll
\* callback goes on to encrypt a reply for the same event: the handler's
\* result, or the error string when it threw; the daemon keeps running.
C9_HandlerFailureBecomesReply ==
    [][ \A c \in Callbacks :
          (cb[c].pc = "handler" /\ cb'[c].pc # "handler")
            => /\ cb'[c].pc = "encrypt"
               /\ cb'[c].ev = cb[c].ev
               /\ cb'[c].reply \in { "result", "error" }
               /\ (lastFailure' # lastFailure
                     => /\ cb'[c].reply = "error"
                        /\ lastFailure' = [ kind |-> "command", ev |-> cb[c].ev ])
               /\ running' ]_vars

\* The error string of a failed command has been encrypted and is being
\* published.
C9_Witness ==
    \E c \in Callbacks :
        /\ cb[c].pc = "publish"
        /\ cb[c].reply = "error"
        /\ lastFailure = [ kind |-> "command", ev |-> cb[c].ev ]

\* C10: whatever failure processing a message raised, the daemon is running,
\* a new poll can start whenever no callback is in flight, no callback is left
\* half-way without an event, and every event not yet marked seen is untouched,
\* so the pipeline takes it the next time it is delivered.
C10_FailuresAreContained ==
    /\ running
    /\ (\A c \in Callbacks : cb[c].pc = "idle") => ENABLED StartPollAlone(1)
    /\ \A c \in Callbacks : InPipeline(c) => cb[c].ev \in processedEvents
    /\ \A c \in Callbacks : cb[c].pc = "idle" => cb[c] = IdleCb
    /\ \A id \in EventIds \ processedEvents :
         /\ pipelineRuns[id] = 0
         /\ decryptLog[id] = << >>
         /\ lastFailure.ev # id

\* After the encryption of a reply failed and the rest of that batch was
\* abandoned, another event has entered the pipeline.
C10_Witness ==
    /\ lastFailure.kind = "encrypt"
    /\ \E c \in Callbacks :
         /\ cb[c].pc = "decrypt"
         /\ cb[c].ev # lastFailure.ev

\* Neither scheme decrypts the content of event id.
SchemesAllFail(id) ==
    /\ ~Nip44Decrypt(EventContent(id), PRIVATE_KEY_HEX, EventPubkey(id)).ok
    /\ ~Nip04Decrypt(EventContent(id), PRIVATE_KEY_HEX, EventPubkey(id)).ok

\* An event of the rest of callback c's batch that the loop will still take.
PendingInBatch(c, id) ==
    /\ \E i \in 1..Len(cb[c].queue) : cb[c].queue[i] = id
    /\ id \notin processedEvents
    /\ IsSenderAllowed(EventPubkey(id))

\* C11: when decryptDM settles for an event that no scheme decrypts, the
\* callback leaves that event: no command is dispatched, no auto-reply decision
\* is taken, nothing is encrypted or published, the conversation, cooldown and
\* replied-event state and the reply counters are unchanged, and the loop goes
\* on with the next event of the batch that is new and allowed; no callback is
\* ever past decryption with such an event.
C11_UndecryptableIsDropped ==
    /\ [](\A c \in Callbacks :
            (InPipeline(c) /\ SchemesAllFail(cb[c].ev)) => cb[c].pc = "decrypt")
    /\ [][ \A c \in Callbacks :
             (cb[c].pc = "decrypt" /\ SchemesAllFail(cb[c].ev) /\ cb'[c] # cb[c])
               => /\ cb'[c].pc \in { "idle", "decrypt" }
                  /\ cb'[c].ev # cb[c].ev
                  /\ cb'[c].cmd = NoCommand
                  /\ cb'[c].reply = "none"
                  /\ senderConversations' = senderConversations
                  /\ commandCooldowns' = commandCooldowns
                  /\ repliedEvents' = repliedEvents
                  /\ lastAutoReplyAt' = lastAutoReplyAt
                  /\ stats'.totalRepliesSent = stats.totalRepliesSent
                  /\ stats'.commandsExecuted = stats.commandsExecuted
                  /\ stats'.autoRepliesSent = stats.autoRepliesSent
                  /\ (\E id \in EventIds : PendingInBatch(c, id))
                       => /\ cb'[c].pc = "decrypt"
                          /\ PendingInBatch(c, cb'[c].ev) ]_vars

\* Decryption failed for one event, and the same pass is now decrypting the
\* next event of its batch.
C11_Witness ==
    \E c \in Callbacks :
        /\ lastFailure.kind = "decrypt"
        /\ SchemesAllFail(lastFailure.ev)
        /\ cb[c].pc = "decrypt"
        /\ cb[c].ev # lastFailure.ev
        /\ decryptLog[lastFailure.ev] = << "nip44", "nip04" >>
        /\ senderConversations = EmptyMap

\* The sender of event id is outside an allow-list that has no wildcard.
BlockedSender(id) ==
    /\ "*" \notin ALLOWED_SENDERS
    /\ EventPubkey(id) \notin ALLOWED_SENDERS

\* C12: an event whose sender is not in the allow-list (which holds no '*')
\* is never handed to decryptDM, no callback ever works on it (so no command
\* runs and no reply is encrypted or published for it), its sender never gets
\* a conversation or cooldown entry or an auto-reply, it is not counted as a
\* received DM, and no failure is recorded for it.
C12_BlockedSenderIsIgnored ==
    /\ \A id \in EventIds :
         BlockedSender(id)
           => /\ decryptLog[id] = << >>
              /\ \A c \in Callbacks : InPipeline(c) => cb[c].ev # id
              /\ EventPubkey(id) \notin DOMAIN senderConversations
              /\ lastAutoReplyAt[EventPubkey(id)] = Null
              /\ id \notin repliedEvents
              /\ lastFailure.ev # id
    /\ stats.totalDmsReceived =
         Cardinality({ id \in processedEvents : ~BlockedSender(id) })

\* An event of a blocked sender has been taken from a batch and marked seen,
\* and the same pass went on to an allowed sender's event.
C12_Witness ==
    \E id \in EventIds, c \in Callbacks :
        /\ BlockedSender(id)
        /\ id \in processedEvents
        /\ pipelineRuns[id] = 1
        /\ cb[c].pc = "decrypt"
        /\ stats.totalDmsReceived = 1

\* The decrypted text of event id matches a pattern of the command table.
MatchesCommand(id) ==
    /\ ~SchemesAllFail(id)
    /\ MatchingCommands(Entry(id).text) # {}

LastReplyTimeOf(convs, sender) ==
    IF sender \in DOMAIN convs THEN convs[sender].lastReplyTime ELSE Null

\* C13: a message that matches a command pattern is handled as a command
\* only.  Past decryption its callback is in the handler or carries a command
\* reply (result, error string or cooldown notice), never the status check or
\* an auto-reply; its id never enters repliedEvents; and no step its callback
\* takes for it changes any sender's lastReplyTime, the replied events or the
\* auto-reply counter, or touches the conversation map other than through
\* markCommandExecuted - also when the message holds a trigger word.
C13_CommandIsNeverTrigger ==
    /\ [](/\ \A c \in Callbacks :
               (InPipeline(c) /\ cb[c].pc # "decrypt" /\ MatchesCommand(cb[c].ev))
                 => /\ cb[c].pc \in { "handler", "encrypt", "publish", "backoff" }
                    /\ cb[c].cmd # NoCommand
                    /\ cb[c].reply \in { "none", "result", "error", "cooldown" }
                    /\ (cb[c].pc # "handler" => cb[c].reply # "none")
          /\ \A id \in EventIds : MatchesCommand(id) => id \notin repliedEvents)
    /\ [][ \A c \in Callbacks :
             (InPipeline(c) /\ MatchesCommand(cb[c].ev) /\ cb'[c] # cb[c])
               => /\ repliedEvents' = repliedEvents
                  /\ lastAutoReplyAt' = lastAutoReplyAt
                  /\ stats'.autoRepliesSent = stats.autoRepliesSent
                  /\ \A s \in Senders :
                       LastReplyTimeOf(senderConversations', s)
                         = LastReplyTimeOf(senderConversations, s)
                  /\ senderConversations' \in
                       { senderConversations,
                         MarkedConversations(senderConversations, cb[c].cmd,
                                             EventPubkey(cb[c].ev), now) } ]_vars

\* A message holding both a command and a trigger word was blocked by the
\* cooldown, and the cooldown notice is being published as its reply.
C13_Witness ==
    \E c \in Callbacks :
        /\ cb[c].pc = "publish"
        /\ cb[c].reply = "cooldown"
        /\ MatchesCommand(cb[c].ev)
        /\ HasTrigger(Entry(cb[c].ev).text)

\* Sender s is in the Active phase: an auto-reply went to them less than
\* CONVERSATION_TIMEOUT_MS ago.
ActivePhase(s) ==
    /\ LastReplyTimeOf(senderConversations, s) # Null
    /\ now - LastReplyTimeOf(senderConversations, s) < CONVERSATION_TIMEOUT_MS

\* One of the two cooldown gates blocks command name for sender s now.
GateBlocks(name, s) ==
    \/ GlobalGateBlocks(commandCooldowns, name, now)
    \/ SenderGateBlocks(senderConversations, name, s, now)

\* C14: when a decrypted message matches a command, what the dispatcher does
\* depends on the cooldown gates alone, whatever the sender's conversation
\* phase: the first matching command's handler is started exactly when neither
\* gate blocks, and the cooldown notice is the reply exactly when one does.
C14_CommandsIgnorePhase ==
    [][ \A c \in Callbacks :
          (cb[c].pc = "decrypt" /\ MatchesCommand(cb[c].ev) /\ cb'[c] # cb[c])
            => LET name == DetectCommand(Entry(cb[c].ev).text)
                   s == EventPubkey(cb[c].ev)
               IN  /\ cb'[c].ev = cb[c].ev
                   /\ cb'[c].cmd = name
                   /\ ~GateBlocks(name, s)
                        => cb'[c].pc = "handler" /\ cb'[c].reply = "none"
                   /\ GateBlocks(name, s)
                        => cb'[c].pc = "encrypt" /\ cb'[c].reply = "cooldown"
                   /\ senderConversations' = senderConversations ]_vars

\* The handler of a command is running for a sender who is in the Active
\* phase.
C14_Witness ==
    \E c \in Callbacks :
        /\ cb[c].pc = "handler"
        /\ ActivePhase(EventPubkey(cb[c].ev))
        /\ lastAutoReplyAt[EventPubkey(cb[c].ev)] # Null

\* C15: whenever the action of a matched command settles, by result or by
\* caught exception, the dispatcher has called markCommandExecuted: the global
\* timestamp of the command and the sender's lastCommandTime for it are the
\* time of the call.
C15_EveryOutcomeMarksExecuted ==
    [][ (disp.pc = "handler" /\ disp'.pc = "idle")
          => /\ disp'.result \in { "result", "error" }
             /\ disp.cmd \in DOMAIN commandCooldowns'
             /\ commandCooldowns'[disp.cmd] = now
             /\ disp.sender \in DOMAIN senderConversations'
             /\ senderConversations'[disp.sender].lastCommandTime[disp.cmd] = now
       ]_vars

\* A recorded execution time t0 of command name is less than the command's
\* cooldown ago.
InsideCooldown(t0, name) == t0 # Null /\ now - t0 < COMMAND_COOLDOWNS[name]

\* The registry holds, globally or for sender s, an execution of command
\* name that is inside its cooldown.
RegistryBlocks(name, s) ==
    \/ name \in DOMAIN commandCooldowns /\ InsideCooldown(commandCooldowns[name], name)
    \/ /\ s \in DOMAIN senderConversations
       /\ InsideCooldown(senderConversations[s].lastCommandTime[name], name)

\* C16: a call of detectAndExecuteCommand for a command that the registry
\* blocks returns the cooldown notice without starting the handler, and leaves
\* the global timestamps and every sender's conversation state, lastCommandTime
\* included, as they were: a blocked attempt does not move the end of the
\* cooldown window.
C16_BlockedDispatchChangesNothing ==
    [][ ( /\ disp.pc = "idle"
          /\ disp' # disp
          /\ disp'.cmd # NoCommand
          /\ RegistryBlocks(disp'.cmd, disp'.sender) )
          => /\ disp'.pc = "idle"
             /\ disp'.result = "cooldown"
             /\ commandCooldowns' = commandCooldowns
             /\ senderConversations' = senderConversations
             /\ lastRun' = lastRun ]_vars

\* A call was blocked some time after the command ran, and the global
\* timestamp is still the time of that run.
C16_Witness ==
    /\ disp.pc = "idle"
    /\ disp.result = "cooldown"
    /\ lastRun[disp.cmd].ok
    /\ now > lastRun[disp.cmd].at
    /\ commandCooldowns[disp.cmd] = lastRun[disp.cmd].at

\* The step in which a publishWithRetry call of the standalone daemon
\* completes a round: relays were attempted and their results counted.
RoundCompleted ==
    /\ pub.pc = "round"
    /\ pub' # pub
    /\ AvailableRelays(relayRateLimits, RELAYS, now) # {}
    /\ pub'.attempted # {}

\* C17: a publishWithRetry call performs at most MAX_RETRIES rounds; a round
\* with at least one success ends the call with true; a round with no success
\* is followed by the backoff wait and another round while attempts remain,
\* and by the failure report when it was the last one.
C17_RoundsUntilFirstSuccess ==
    [][ RoundCompleted
          => /\ pub.attempt < MAX_RETRIES
             /\ pub'.successCount > 0
                  => pub'.pc = "idle" /\ pub'.result = "true"
             /\ (pub'.successCount = 0 /\ pub.attempt < MAX_RETRIES - 1)
                  => pub'.pc = "waiting"
             /\ (pub'.successCount = 0 /\ pub.attempt = MAX_RETRIES - 1)
                  => pub'.pc = "idle" /\ pub'.result = "false" ]_vars

\* The relays the next round of a publishWithRetry call would skip.
BackedOff(limits, t) == { url \in RELAYS : InBackoff(limits, url, t) }

\* C18: when a round of the OpenClaw daemon's publishWithRetry failed because
\* a relay rejected the event - with a rate-limit error or any other: the catch
\* block does not look at the error - that relay is in backoff from then on,
\* so the round after the wait leaves a relay out.
C18_RateLimitedRelayBackedOff ==
    [][ \A c \in Callbacks :
          ( /\ cb[c].pc = "publish"
            /\ cb'[c].pc = "backoff"
            /\ cb'[c].accepted < cb'[c].attempted )
            => /\ BackedOff(relayRateLimits', now) # {}
               /\ Cardinality(AvailableRelays(relayRateLimits', RELAYS, now))
                    < cb'[c].attempted ]_vars

----------------------------------------------------------------------------
\* The standalone publish engine over a longer time, for the failure streaks
\* of a relay

MaxHealthTicks == 5
MAX_CONSECUTIVE_FAILURES == 5
HealthSteps == { 30000 }
HealthOutcomes == { "ok", "rate" }

\* Time passes between publish calls and during their waits.
HealthTick(d) ==
    /\ ticks < MaxHealthTicks
    /\ now' = now + d
    /\ ticks' = ticks + 1
    /\ UNCHANGED << feed, processedEvents, relayRateLimits,
                    senderConversations, repliedEvents, commandCooldowns, stats,
                    cb, running, pipelineRuns, decryptLog, lastFailure,
                    lastAutoReplyAt, disp, lastRun, pub, bo >>

NextHealth ==
    \/ PublishCall
    \/ \E results \in [ RELAYS -> HealthOutcomes ], r \in JitterSamples :
          PublishAttempt(results, r)
    \/ \E r \in JitterSamples : PublishThrows(r)
    \/ PublishWakes
    \/ \E d \in HealthSteps : HealthTick(d)

SpecHealth == InitIdle /\ [][NextHealth]_vars

\* C19: no publish round attempts a relay whose last MAX_CONSECUTIVE_FAILURES
\* attempts all failed.
C19_BlacklistedAfterFiveFailures ==
    [][ RoundCompleted
          => \A url \in pub'.attempted :
               ConsecutiveFailures(relayRateLimits, url) < MAX_CONSECUTIVE_FAILURES
       ]_vars

C21_EmptyRoundIsRetried ==
    [][ /\ ( /\ pub.pc = "round"
             /\ pub' # pub
             /\ AvailableRelays(relayRateLimits, RELAYS, now) = {} )
            => /\ pub'.pc = "penalty"
               /\ pub'.wakeAt = now + ALL_LIMITED_WAIT_MS
               /\ pub'.attempt = pub.attempt
               /\ pub'.result = pub.result
        /\ (pub.pc = "penalty" /\ pub'.pc # "penalty")
            => /\ pub'.pc = "round"
               /\ pub'.attempt = pub.attempt ]_vars

----------------------------------------------------------------------------
\* The bookkeeping of one relay result in the standalone daemon's
\* publishWithRetry (the callback of pub.forEach), with the error text

\* An error text is modelled by the set of the signatures it contains, after
\* toLowerCase().
RateLimitSignatures == { "rate-limited", "noting too much", "you are noting too much" }
PermanentSignatures == { "inbox", "blocked", "does not exist" }

Fulfilled == { "fulfilled" }
ErrorTexts ==
    { { "noting too much", "you are noting too much" }, { "does not exist" },
      { "rate-limited", "blocked" }, { "timeout" } }
Settlements == { Fulfilled } \cup ErrorTexts

IsRateLimitText(reason) == reason \cap RateLimitSignatures # {}
IsPermanentText(reason) == reason \cap PermanentSignatures # {}

\* A mutant tests the permanent signatures first.
ClassifyPermanentFirst(settlement) ==
    IF settlement = Fulfilled THEN "ok"
    ELSE IF IsPermanentText(settlement) THEN "permanent"
    ELSE IF IsRateLimitText(settlement) THEN "rate"
    ELSE "other"

\* result.status, then the if / else if on the reason.
Classify(settlement) ==
    IF settlement = Fulfilled THEN "ok"
    ELSE IF IsRateLimitText(settlement) THEN "rate"
    ELSE IF IsPermanentText(settlement) THEN "permanent"
    ELSE "other"

NoEntry == [ backoffUntil |-> Null, consecutiveFailures |-> 0 ]
EntryOf(limits, url) == IF url \in DOMAIN limits THEN limits[url] ELSE NoEntry

\* The forEach callback for relay url, which the round attempted.
ProcessResult(url, settlement, r) ==
    /\ ~InBackoff(relayRateLimits, url, now)
    /\ relayRateLimits' =
         ProcessedResults(relayRateLimits, { url },
                          [ u \in RELAYS |-> Classify(settlement) ], r, now)
    /\ bo' = [ daemon |-> "standalone", url |-> url, settlement |-> settlement,
               r |-> r, at |-> now, had |-> url \in DOMAIN relayRateLimits,
               before |-> EntryOf(relayRateLimits, url) ]
    /\ UNCHANGED << feed, now, ticks, processedEvents, senderConversations,
                    repliedEvents, commandCooldowns, stats, cb, running,
                    pipelineRuns, decryptLog, lastFailure, lastAutoReplyAt,
                    disp, lastRun, pub >>

\* The relays whose results are followed; the callback touches the entry of
\* its own relay only.
ResultRelays == { 1, NumRelays }

NextResult ==
    \/ \E url \in ResultRelays, settlement \in Settlements, r \in RandomSamples :
          ProcessResult(url, settlement, r)
    \/ \E d \in HealthSteps : HealthTick(d)

SpecResult == InitIdle /\ [][NextResult]_vars

\* The last result processed was a rejection whose text holds a rate-limit
\* signature.
LastWasRateLimit == bo.daemon = "standalone" /\ IsRateLimitText(bo.settlement)

\* C22: after a rejection whose text holds a rate-limit signature - also when
\* it holds a permanent signature too - the relay's entry has consecutiveFailures
\* one more than before (1 when it had no entry) and backoffUntil = the time of
\* the failure + min(2000 * 2^failures before, 30000) + jitter below 1000; and
\* from one rate-limit failure of a relay to its next the interval does not
\* shrink, and grows while below the cap.
C22_RateLimitFailureCounts ==
    /\ [](LastWasRateLimit
            => /\ bo.url \in DOMAIN relayRateLimits
               /\ relayRateLimits[bo.url].consecutiveFailures
                    = bo.before.consecutiveFailures + 1
               /\ (~bo.had => relayRateLimits[bo.url].consecutiveFailures = 1)
               /\ relayRateLimits[bo.url].backoffUntil - bo.at - bo.r
                    = Min(BASE_BACKOFF_MS * Pow2(bo.before.consecutiveFailures),
                          MAX_BACKOFF_MS)
               /\ bo.r \in 0..999)
    /\ [][ ( /\ LastWasRateLimit
             /\ bo' # bo
             /\ bo'.url = bo.url
             /\ IsRateLimitText(bo'.settlement) )
            => LET interval == relayRateLimits[bo.url].backoffUntil - bo.at
                   next == relayRateLimits'[bo.url].backoffUntil - bo'.at
               IN  /\ next - bo'.r >= interval - bo.r
                   /\ interval - bo.r < MAX_BACKOFF_MS => next > interval
                   /\ next - bo'.r <= MAX_BACKOFF_MS ]_vars

\* A relay whose text held both signatures was rate-limited for the fifth
\* time in a row: its interval is at the cap.
C22_Witness ==
    /\ LastWasRateLimit
    /\ IsPermanentText(bo.settlement)
    /\ bo.before.consecutiveFailures = 4
    /\ relayRateLimits[bo.url].consecutiveFailures = 5
    /\ relayRateLimits[bo.url].backoffUntil - bo.at - bo.r = MAX_BACKOFF_MS

\* C23: after a relay accepted the event, it has no health entry, whatever
\* entry it had when the round attempted it.
C23_SuccessClearsEntry ==
    (bo.daemon = "standalone" /\ bo.settlement = Fulfilled)
      => /\ bo.url \notin DOMAIN relayRateLimits
         /\ EntryOf(relayRateLimits, bo.url) = NoEntry
         /\ ~InBackoff(relayRateLimits, bo.url, now)

\* A relay that had failed several times in a row accepted the event.
C23_Witness ==
    /\ bo.daemon = "standalone"
    /\ bo.settlement = Fulfilled
    /\ bo.had
    /\ bo.before.consecutiveFailures >= 2
    /\ bo.url \notin DOMAIN relayRateLimits

\* The health entry of relay url is the same before and after the step.
EntryKept(url) ==
    /\ (url \in DOMAIN relayRateLimits') <=> (url \in DOMAIN relayRateLimits)
    /\ EntryOf(relayRateLimits', url) = EntryOf(relayRateLimits, url)

\* C24: processing a relay's result changes no other relay's health entry,
\* in particular not the entry of a relay that is in backoff and was left out
\* of the round; and a rejection whose text holds neither a rate-limit nor a
\* permanent signature leaves the relay's own entry as it was.
C24_OnlyClassifiedResultsChangeHealth ==
    [][ bo' # bo
          => /\ \A url \in RELAYS \ { bo'.url } : EntryKept(url)
             /\ \A url \in DOMAIN relayRateLimits :
                  relayRateLimits[url].backoffUntil > now => EntryKept(url)
             /\ ( /\ bo'.settlement # Fulfilled
                  /\ ~IsRateLimitText(bo'.settlement)
                  /\ ~IsPermanentText(bo'.settlement) )
                  => EntryKept(bo'.url) ]_vars

\* A relay with a health entry whose backoff has passed was rejected with an
\* unclassified error while another relay is in backoff: both entries are as
\* they were.
C24_Witness ==
    /\ bo.daemon = "standalone"
    /\ bo.settlement = { "timeout" }
    /\ bo.had
    /\ bo.url \in DOMAIN relayRateLimits
    /\ relayRateLimits[bo.url] = bo.before
    /\ \E url \in RELAYS \ { bo.url } : InBackoff(relayRateLimits, url, now)

----------------------------------------------------------------------------
\* publishWithRetry of the OpenClaw daemon on its own, relay by relay: the
\* attempts of a round settle one at a time, and await Promise.all resumes at
\* the first rejection or when the last attempt resolved

\* status: the attempt of the current round at each relay; late: the relays
\* with an attempt of an earlier round that has not settled yet.
JoinIdle ==
    [ pc |-> "idle", attempt |-> 0, wakeAt |-> 0,
      status |-> [ url \in RELAYS |-> "none" ], late |-> {}, result |-> "none" ]

JoinFrame ==
    << feed, ticks, processedEvents, relayRateLimits, senderConversations,
       repliedEvents, commandCooldowns, stats, cb, running, pipelineRuns,
       decryptLog, lastFailure, lastAutoReplyAt, disp, lastRun, bo >>

\* main calls publishWithRetry(pool, replyEvent, RELAYS).
JoinCall ==
    /\ pub.pc = "idle"
    /\ pub' = [ JoinIdle EXCEPT !.pc = "round",
                  !.late = IF "late" \in DOMAIN pub
                           THEN pub.late
                                \cup { url \in RELAYS : pub.status[url] = "pending" }
                           ELSE {} ]
    /\ UNCHANGED << now, JoinFrame >>

\* The catch block: the backoff wait, or the rethrow at the last attempt.
Caught(p, r) ==
    IF p.attempt < MAX_RETRIES - 1
    THEN [ p EXCEPT !.pc = "backoff", !.wakeAt = now + BackoffMs(p.attempt, r) ]
    ELSE [ p EXCEPT !.pc = "idle", !.result = "thrown" ]

\* The head of the try block: the filter, the throw on an empty set, the
\* pool.publish calls, await Promise.all.
JoinRound(r) ==
    LET available == AvailableRelays(relayRateLimits, RELAYS, now)
        started == [ pub EXCEPT
                       !.late = @ \cup { url \in RELAYS : pub.status[url] = "pending" },
                       !.status = [ url \in RELAYS |->
                                      IF url \in available THEN "pending" ELSE "none" ] ]
    IN  /\ pub.pc = "round"
        /\ pub' = IF available = {} THEN Caught(pub, r)
                  ELSE [ started EXCEPT !.pc = "join" ]
        /\ UNCHANGED << now, JoinFrame >>

\* The attempt at relay url settles while the call awaits Promise.all: a
\* rejection rejects the join at once, the last resolution resolves it.
SettleInRound(url, ok, r) ==
    LET settled == [ pub EXCEPT !.status[url] = IF ok THEN "ok" ELSE "rejected" ]
    IN  /\ pub.pc = "join"
        /\ pub.status[url] = "pending"
        /\ pub' = IF ~ok
                  THEN Caught(settled, r)
                  ELSE IF \A u \in RELAYS : settled.status[u] \in { "ok", "none" }
                       THEN [ settled EXCEPT !.pc = "idle", !.result = "true" ]
                       ELSE settled
        /\ UNCHANGED << now, JoinFrame >>

\* An attempt settles after its round was left, or after a later round
\* started: nobody observes it.
SettleLate(url) ==
    /\ pub.pc \in { "idle", "backoff", "round", "join" }
    /\ "status" \in DOMAIN pub
    /\ \/ /\ pub.pc # "join"
          /\ pub.status[url] = "pending"
          /\ pub' = [ pub EXCEPT !.status[url] = "unobserved" ]
       \/ /\ url \in pub.late
          /\ pub' = [ pub EXCEPT !.late = @ \ { url } ]
    /\ UNCHANGED << now, JoinFrame >>

\* setTimeout(resolve, backoffMs) fires: attempt++ and the next pass.
JoinWakes ==
    /\ pub.pc = "backoff"
    /\ now >= pub.wakeAt
    /\ pub' = [ pub EXCEPT !.pc = "round", !.attempt = @ + 1, !.wakeAt = 0 ]
    /\ UNCHANGED << now, JoinFrame >>

NextJoin ==
    \/ JoinCall
    \/ \E r \in JitterSamples : JoinRound(r)
    \/ \E url \in RELAYS, ok \in BOOLEAN, r \in JitterSamples : SettleInRound(url, ok, r)
    \/ \E url \in RELAYS : SettleLate(url)
    \/ JoinWakes
    \/ \E d \in PublishSteps : Tick(d)

SpecJoin == InitIdle /\ [][NextJoin]_vars

\* C25: when the await of a round's join resumes (the call returns, throws
\* or goes into its backoff), every attempt of that round has settled; and a
\* round starts only when no attempt of an earlier round is pending.
C25_RoundJoinsAllAttempts ==
    [][ /\ (pub.pc = "join" /\ pub'.pc # "join")
            => \A url \in RELAYS : pub'.status[url] # "pending"
        /\ (pub.pc = "round" /\ pub'.pc = "join")
            => /\ pub'.late = {}
               /\ \A url \in RELAYS : pub.status[url] # "pending" ]_vars

\* C26: a trigger decided exactly CONVERSATION_TIMEOUT_MS after the sender's
\* last auto-reply is suppressed; a trigger is answered only when more than
\* CONVERSATION_TIMEOUT_MS have passed since that auto-reply.
C26_BoundaryIsActive ==
    [][ \A c \in Callbacks, s \in Senders :
          (TriggerDecided(c, s) /\ lastAutoReplyAt[s] # Null)
            => /\ now - lastAutoReplyAt[s] = CONVERSATION_TIMEOUT_MS
                    => cb'[c].pc # "status"
               /\ cb'[c].pc = "status"
                    => now - lastAutoReplyAt[s] > CONVERSATION_TIMEOUT_MS ]_vars

----------------------------------------------------------------------------
\* The OpenClaw daemon over days: one event, and the housekeeping timer with
\* a record of its runs

MaxDayTicks == 1
MaxFewEvents == 1
DaySteps == { 90000000 }

\* A mutant of the timer's callback forgets every command timestamp.
HousekeepingForgetsCommands ==
    /\ running
    /\ commandCooldowns' = EmptyMap
    /\ senderConversations' =
         [ s \in DOMAIN senderConversations |->
             [ senderConversations[s] EXCEPT !.lastCommandTime = EmptyCommandTimes ] ]
    /\ bo' = [ daemon |-> "housekeeping", at |-> now, returned |-> TRUE ]
    /\ UNCHANGED << feed, now, ticks, processedEvents, relayRateLimits,
                    repliedEvents, stats, cb, running, pipelineRuns, decryptLog,
                    lastFailure, lastAutoReplyAt, disp, lastRun, pub >>

\* bo holds the last run of the cleanup timer's callback: when it ran, and
\* whether cleanupOldState returned (rather than threw into the catch block).
HousekeepingRuns ==
    /\ running
    /\ IF StartTimeInScope
       THEN /\ processedEvents' = ClearedProcessedEvents(processedEvents, now)
            /\ senderConversations' = SweptConversations(senderConversations, now)
            /\ relayRateLimits' = SweptRelayRateLimits(relayRateLimits, now)
            /\ commandCooldowns' = SweptCommandCooldowns(commandCooldowns, now)
       ELSE UNCHANGED << processedEvents, senderConversations, relayRateLimits,
                         commandCooldowns >>
    /\ bo' = [ daemon |-> "housekeeping", at |-> now, returned |-> StartTimeInScope ]
    /\ UNCHANGED << feed, now, ticks, repliedEvents, stats, cb, running,
                    pipelineRuns, decryptLog, lastFailure, lastAutoReplyAt, disp,
                    lastRun, pub >>

\* A day passes.
DayTick(d) ==
    /\ ticks < MaxTicks + MaxDayTicks
    /\ now' = now + d
    /\ ticks' = ticks + 1
    /\ UNCHANGED << feed, processedEvents, relayRateLimits,
                    senderConversations, repliedEvents, commandCooldowns, stats,
                    cb, running, pipelineRuns, decryptLog, lastFailure,
                    lastAutoReplyAt, disp, lastRun, pub, bo >>

NextDays ==
    \/ \E c \in Callbacks : StartPollAlone(c)
    \/ \E c \in Callbacks : PipelineStep(c)
    \/ HousekeepingRuns
    \/ \E d \in TimeSteps : Tick(d)
    \/ \E d \in DaySteps : DayTick(d)

InitFew == InitWith(MaxFewEvents)

SpecDays == InitFew /\ [][NextDays]_vars

\* The last activity recorded in a conversation entry: the last auto-reply or
\* the last command, whichever is later.
RECURSIVE MaxOf(_)
MaxOf(S) ==
    IF S = {} THEN Null
    ELSE LET x == CHOOSE y \in S : TRUE
             m == MaxOf(S \ { x })
         IN  IF x > m THEN x ELSE m

LastActivity(state) ==
    MaxOf({ state.lastReplyTime }
          \cup { state.lastCommandTime[name] : name \in CommandNames })

IdleTooLong(state, t) ==
    /\ LastActivity(state) # Null
    /\ t - LastActivity(state) > CLEANUP_THRESHOLD

\* C27: right after a run of the housekeeping timer, no conversation entry is
\* left whose sender has been idle for more than CLEANUP_THRESHOLD, whether the
\* last activity was an auto-reply or a command.
C27_IdleConversationsEvicted ==
    (bo.daemon = "housekeeping" /\ bo.at = now)
      => \A s \in DOMAIN senderConversations :
           ~IdleTooLong(senderConversations[s], now)

----------------------------------------------------------------------------
\* The resolvers: decryptDM of the standalone daemon (part_004), decryptEvent
\* of the robust listener (part_000) and decryptDM of the OpenClaw daemon,
\* each in its own process, over events of every kind

MaxResolved == 2

EnvelopeKinds == { 1059, 1060 }
DirectMessageKind == 4
Programs == { "standalone", "robust", "openclaw" }

\* Texts as the code sees them, character by character.
UnknownFormatPrefix ==
    << "[", "u", "n", "k", "n", "o", "w", "n", " ", "f", "o", "r", "m", "a",
       "t", ",", " ", "k", "i", "n", "d", " " >>
EmptyPlaceholder == << "[", "e", "m", "p", "t", "y", "]" >>

Spelling(word) ==
    CASE word = "patch-in" -> << "p", "a", "t", "c", "h", "-", "i", "n" >>
      [] word = "test"     -> << "t", "e", "s", "t" >>
      [] word = "hello"    -> << "h", "e", "l", "l", "o" >>
      [] word = "hi"       -> << "h", "i" >>
      [] word = "howdy"    -> << "h", "o", "w", "d", "y" >>
      [] word = "ping"     -> << "p", "i", "n", "g" >>
      [] word = "dm"       -> << "d", "m" >>
      [] word = "check"    -> << "c", "h", "e", "c", "k" >>
      [] word = "verify"   -> << "v", "e", "r", "i", "f", "y" >>

UpperCase ==
    << "A", "B", "C", "D", "E", "F", "G", "H", "I", "J", "K", "L", "M",
       "N", "O", "P", "Q", "R", "S", "T", "U", "V", "W", "X", "Y", "Z" >>
LowerCase ==
    << "a", "b", "c", "d", "e", "f", "g", "h", "i", "j", "k", "l", "m",
       "n", "o", "p", "q", "r", "s", "t", "u", "v", "w", "x", "y", "z" >>

ToLowerCase(text) ==
    [ i \in DOMAIN text |->
        IF \E k \in DOMAIN UpperCase : UpperCase[k] = text[i]
        THEN LowerCase[CHOOSE k \in DOMAIN UpperCase : UpperCase[k] = text[i]]
        ELSE text[i] ]

Includes(text, part) ==
    \E i \in 1..(Len(text) - Len(part) + 1) :
        SubSeq(text, i, i + Len(part) - 1) = part

\* A number in a template literal.
DecimalDigits == << "0", "1", "2", "3", "4", "5", "6", "7", "8", "9" >>
RECURSIVE Decimal(_)
Decimal(n) ==
    IF n < 0 THEN << "-" >> \o Decimal(0 - n)
    ELSE IF n < 10 THEN << DecimalDigits[n + 1] >>
    ELSE Decimal(n \div 10) \o << DecimalDigits[(n % 10) + 1] >>

\* The trigger words a text contains, as isAutoReplyTrigger finds them.
TriggersIn(text) ==
    { word \in AUTO_REPLY_TRIGGERS : Includes(ToLowerCase(text), Spelling(word)) }

IsAutoReplyTrigger(message) == message \cap AUTO_REPLY_TRIGGERS # {}

\* The events the relays may deliver.  content is what the sender encrypted
\* (scheme "plain": not encrypted); an envelope carries a seal that unwraps to
\* its inner event, that cannot be unwrapped, or that unwraps to nothing.
Payload(scheme, from, text) ==
    [ scheme |-> scheme, from |-> from, to |-> MyPubkey, text |-> text ]
NoInner == [ kind |-> Null, pubkey |-> "nobody", content |-> Payload("plain", "nobody", {}) ]
Inner(kind, scheme, text) ==
    [ kind |-> kind, pubkey |-> "A", content |-> Payload(scheme, "A", text) ]
Sealed(inner) == [ seal |-> "sealed", inner |-> inner ]
Garbled == [ seal |-> "garbled", inner |-> NoInner ]
Void == [ seal |-> "void", inner |-> NoInner ]
NoWrap == [ seal |-> "none", inner |-> NoInner ]

Plain(kind, pubkey, scheme, text) ==
    [ kind |-> kind, pubkey |-> pubkey, content |-> Payload(scheme, pubkey, text),
      wrap |-> NoWrap ]
Envelope(kind, wrap) ==
    [ kind |-> kind, pubkey |-> "R", content |-> Payload("none", "R", {}),
      wrap |-> wrap ]

Delivered ==
    << Plain(4, "A", "nip04", { "hello" }),
       Plain(4, "A", "nip44", { "hi" }),
       Plain(4, "A", "none", { "hello" }),
       Plain(4, "A", "nip04", { "thanks" }),
       Plain(4, MyPubkey, "nip04", { "hello" }),
       Envelope(1059, Sealed(Inner(4, "nip04", { "test" }))),
       Envelope(1059, Sealed(Inner(4, "nip44", { "ping" }))),
       Envelope(1059, Sealed(Inner(4, "none", { "ping" }))),
       Envelope(1060, Sealed(Inner(14, "plain", { "hello" }))),
       Envelope(1060, Sealed(Inner(14, "plain", {}))),
       Envelope(1059, Garbled),
       Envelope(1060, Void),
       Plain(1, "A", "plain", { "hello" }),
       Plain(0, "A", "plain", { "dm" }),
       Plain(7, "A", "plain", { "hi" }),
       Plain(1058, "A", "plain", { "test" }),
       Plain(30023, "A", "plain", { "check" }),
       Plain(0 - 1, "A", "plain", { "ping" }) >>
DeliveredIds == DOMAIN Delivered

\* nip59.unwrapEvent: throws, or returns the inner event (or nothing).
UnwrapEvent(event, privateKey) ==
    [ thrown |-> event.wrap.seal = "garbled" \/ PubkeyOf(privateKey) # MyPubkey,
      unwrapped |-> event.wrap.seal = "sealed",
      inner |-> event.wrap.inner ]

\* What a resolver returns: a message, or null.
NoMessage == [ format |-> "null", content |-> {} ]
Message(content, format) == [ format |-> format, content |-> content ]
Resolution(result, unwrap, tried, failed) ==
    [ result |-> result, unwrap |-> unwrap, tried |-> tried, failed |-> failed ]

\* `unwrapped.content || '[empty]'` of an inner event that is not a DM.
InnerContent(inner) ==
    IF inner.content.scheme = "plain" /\ inner.content.text # {}
    THEN inner.content.text
    ELSE IF inner.content.scheme = "plain" THEN TriggersIn(EmptyPlaceholder)
    ELSE NoText

UnknownFormatKeepsContent(event) ==
    Message(event.content.text, "unknown")

UnknownFormat(event) ==
    Message(TriggersIn(UnknownFormatPrefix \o Decimal(event.kind) \o << "]" >>),
            "unknown")

\* decryptDM of the standalone daemon, after its duplicate test.
StandaloneDecryptDM(event, privateKey) ==
    IF event.kind \in EnvelopeKinds /\ UnwrapEvent(event, privateKey).thrown
    THEN Resolution(NoMessage, "threw", << >>, {})
    ELSE IF event.kind \in EnvelopeKinds /\ UnwrapEvent(event, privateKey).unwrapped
    THEN LET inner == UnwrapEvent(event, privateKey).inner
             r04 == Nip04Decrypt(inner.content, privateKey, inner.pubkey)
         IN  IF inner.kind = DirectMessageKind
             THEN IF r04.ok
                  THEN Resolution(Message(r04.text, "NIP-59 gift wrap (inner: NIP-04)"),
                                  "event", << "nip04" >>, {})
                  ELSE Resolution(NoMessage, "event", << "nip04" >>, { "nip04" })
             ELSE Resolution(Message(InnerContent(inner), "NIP-59 gift wrap (kind)"),
                             "event", << >>, {})
    ELSE IF event.kind = DirectMessageKind
    THEN LET r04 == Nip04Decrypt(event.content, privateKey, event.pubkey)
         IN  IF r04.ok
             THEN Resolution(Message(r04.text, "NIP-04"), "none", << "nip04" >>, {})
             ELSE Resolution(NoMessage, "none", << "nip04" >>, { "nip04" })
    ELSE Resolution(UnknownFormat(event),
                    IF event.kind \in EnvelopeKinds THEN "void" ELSE "none",
                    << >>, {})

\* decryptEvent of the robust listener, after its duplicate test.
DecryptEvent(event, privateKey) ==
    LET u == UnwrapEvent(event, privateKey)
        unwrap == IF event.kind \notin EnvelopeKinds THEN "none"
                  ELSE IF u.thrown THEN "threw"
                  ELSE IF u.unwrapped THEN "event" ELSE "void"
    IN  IF unwrap = "event"
        THEN LET r04 == Nip04Decrypt(u.inner.content, privateKey, u.inner.pubkey)
                 r44 == Nip44Decrypt(u.inner.content, privateKey, u.inner.pubkey)
             IN  IF u.inner.kind # DirectMessageKind
                 THEN Resolution(Message(InnerContent(u.inner), "NIP-59 gift wrap (kind)"),
                                 unwrap, << >>, {})
                 ELSE IF r04.ok
                 THEN Resolution(Message(r04.text, "NIP-59 gift wrap (inner: NIP-04)"),
                                 unwrap, << "nip04" >>, {})
                 ELSE IF r44.ok
                 THEN Resolution(Message(r44.text, "NIP-59 gift wrap (inner: NIP-44)"),
                                 unwrap, << "nip04", "nip44" >>, { "nip04" })
                 ELSE Resolution(Message(NoText, "NIP-59 gift wrap (plain content)"),
                                 unwrap, << "nip04", "nip44" >>, { "nip04", "nip44" })
        ELSE IF event.kind = DirectMessageKind
        THEN LET r04 == Nip04Decrypt(event.content, privateKey, event.pubkey)
                 r44 == Nip44Decrypt(event.content, privateKey, event.pubkey)
             IN  IF r04.ok
                 THEN Resolution(Message(r04.text, "NIP-04"), unwrap, << "nip04" >>, {})
                 ELSE IF r44.ok
                 THEN Resolution(Message(r44.text, "NIP-44 (in kind 4)"),
                                 unwrap, << "nip04", "nip44" >>, { "nip04" })
                 ELSE Resolution(NoMessage, unwrap, << "nip04", "nip44" >>,
                                 { "nip04", "nip44" })
        ELSE Resolution(UnknownFormat(event), unwrap, << >>, {})

\* decryptDM of the OpenClaw daemon, on the content of an event.
OpenClawDecryptDM(event, privateKey) ==
    LET d == DecryptDM(event.content, privateKey, event.pubkey)
    IN  Resolution(IF d.ok THEN Message(d.text, "decrypted") ELSE NoMessage,
                   "none", d.tried,
                   IF d.ok THEN { d.tried[i] : i \in 1..(Len(d.tried) - 1) }
                   ELSE { d.tried[i] : i \in 1..Len(d.tried) })

\* The keys of processedEvents: event.id, and `replied-${event.id}`.
EventMark(id) == << "", id >>
RepliedMark(id) == << "replied-", id >>

ResolveFrame ==
    << feed, now, ticks, relayRateLimits, senderConversations, repliedEvents,
       commandCooldowns, cb, running, pipelineRuns, decryptLog, lastFailure,
       lastAutoReplyAt, lastRun >>

Resolved(daemon, id, first, res, replying) ==
    [ daemon |-> daemon, id |-> id, kind |-> Delivered[id].kind, first |-> first,
      result |-> res.result, unwrap |-> res.unwrap, tried |-> res.tried,
      failed |-> res.failed, replying |-> replying ]

Unresolved == Resolution(NoMessage, "none", << >>, {})

\* onevent of the standalone daemon, up to the pause before sendReply.
\* disp holds the events whose reply is on its way.
StandaloneOnEvent(id) ==
    LET event == Delivered[id]
        first == EventMark(id) \notin processedEvents
        res == IF first THEN StandaloneDecryptDM(event, PRIVATE_KEY_HEX) ELSE Unresolved
        decrypted == res.result # NoMessage
        replying == /\ decrypted
                    /\ IsAutoReplyTrigger(res.result.content)
                    /\ RepliedMark(id) \notin processedEvents
    IN  /\ pub.program = "standalone"
        /\ first => Cardinality({ i \in DeliveredIds : EventMark(i) \in processedEvents })
                       < MaxResolved
        /\ IF event.pubkey = MyPubkey
           THEN UNCHANGED << processedEvents, stats, disp, bo >>
           ELSE /\ processedEvents' =
                     processedEvents \cup { EventMark(id) }
                       \cup (IF replying THEN { RepliedMark(id) } ELSE {})
                /\ stats' = IF decrypted
                            THEN [ stats EXCEPT !.totalDMs = @ + 1,
                                                !.decryptedDMs = @ + 1 ]
                            ELSE stats
                /\ disp' = IF replying THEN disp \cup { id } ELSE disp
                /\ bo' = Resolved("standalone", id, first, res, replying)
        /\ UNCHANGED << pub, ResolveFrame >>

\* sendReply settles.
ReplySettles(id, replySuccess) ==
    /\ pub.program = "standalone"
    /\ id \in disp
    /\ disp' = disp \ { id }
    /\ stats' = IF replySuccess
                THEN [ stats EXCEPT !.autoReplies = @ + 1 ]
                ELSE [ stats EXCEPT !.autoReplyErrors = @ + 1 ]
    /\ UNCHANGED << processedEvents, pub, bo, ResolveFrame >>

\* onevent of the robust listener (SENDER_PUBKEY is 'all').
ListenerOnEvent(id) ==
    LET event == Delivered[id]
        first == id \notin pub.seenEvents
        res == IF first THEN DecryptEvent(event, PRIVATE_KEY_HEX) ELSE Unresolved
    IN  /\ pub.program = "robust"
        /\ first => Cardinality(pub.seenEvents) < MaxResolved
        /\ IF event.pubkey = MyPubkey
           THEN UNCHANGED << pub, bo >>
           ELSE /\ pub' = [ pub EXCEPT
                              !.seenEvents = @ \cup { id },
                              !.receivedDMs = IF res.result # NoMessage
                                              THEN Append(@, id) ELSE @ ]
                /\ bo' = Resolved("robust", id, first, res, FALSE)
        /\ UNCHANGED << processedEvents, stats, disp, ResolveFrame >>

\* A call of the OpenClaw daemon's decryptDM on a direct message.
OpenClawDecrypts(id) ==
    /\ pub.program = "openclaw"
    /\ Delivered[id].kind = DirectMessageKind
    /\ bo' = Resolved("openclaw", id, TRUE,
                      OpenClawDecryptDM(Delivered[id], PRIVATE_KEY_HEX), FALSE)
    /\ UNCHANGED << processedEvents, stats, disp, pub, ResolveFrame >>

NextResolve ==
    \/ \E id \in DeliveredIds : StandaloneOnEvent(id)
    \/ \E id \in DeliveredIds, replySuccess \in BOOLEAN : ReplySettles(id, replySuccess)
    \/ \E id \in DeliveredIds : ListenerOnEvent(id)
    \/ \E id \in DeliveredIds : OpenClawDecrypts(id)

InitResolve ==
    /\ feed = << >>
    /\ now = StartTime
    /\ ticks = 0
    /\ processedEvents = {}
    /\ relayRateLimits = EmptyMap
    /\ senderConversations = EmptyMap
    /\ repliedEvents = {}
    /\ commandCooldowns = EmptyMap
    /\ stats = [ totalDMs |-> 0, decryptedDMs |-> 0, autoReplies |-> 0,
                 autoReplyErrors |-> 0 ]
    /\ cb = [ c \in Callbacks |-> IdleCb ]
    /\ running = TRUE
    /\ pipelineRuns = << >>
    /\ decryptLog = << >>
    /\ lastFailure = NoFailure
    /\ lastAutoReplyAt = [ s \in Senders |-> Null ]
    /\ disp = {}
    /\ lastRun = [ name \in CommandNames |-> NoRun ]
    /\ pub \in { [ program |-> p, seenEvents |-> {}, receivedDMs |-> << >> ] :
                   p \in Programs }
    /\ bo = NoBackoff

SpecResolve == InitResolve /\ [][NextResolve]_vars

\* The last event was resolved for the first time by one of these programs.
ResolvedBy(daemons) ==
    /\ bo.daemon \in daemons
    /\ bo.first

\* C28: in the standalone daemon and in the robust listener, an envelope whose
\* unwrapping threw resolves to nothing: no message of any format is returned
\* for it.
C28_FailedUnwrapYieldsNothing ==
    (ResolvedBy({ "standalone", "robust" }) /\ bo.unwrap = "threw")
      => bo.result = NoMessage

\* C29: in the OpenClaw daemon and in the robust listener, the first scheme
\* attempted on a direct message is NIP-44, NIP-04 is attempted only after
\* NIP-44 failed, and when both failed no message is returned.
C29_PreferredSchemeFirst ==
    (ResolvedBy({ "openclaw", "robust" }) /\ bo.tried # << >>)
      => /\ bo.tried[1] = "nip44"
         /\ (\E i \in DOMAIN bo.tried : bo.tried[i] = "nip04") => "nip44" \in bo.failed
         /\ bo.failed = { "nip44", "nip04" } => bo.result = NoMessage

KnownKinds == EnvelopeKinds \cup { DirectMessageKind }

\* The events the standalone daemon has passed on after resolving them.
PassedOn ==
    { id \in DeliveredIds :
        /\ EventMark(id) \in processedEvents
        /\ StandaloneDecryptDM(Delivered[id], PRIVATE_KEY_HEX).result # NoMessage }

\* C30: an event whose kind is neither an envelope nor a direct message
\* resolves to a message of format 'unknown'; the message is passed on
\* (counted by the standalone daemon, collected by the listener), it contains
\* no trigger, and no reply to such an event is ever started.
C30_UnknownKindNeverReplied ==
    /\ (ResolvedBy({ "standalone", "robust" }) /\ bo.kind \notin KnownKinds)
         => /\ bo.result.format = "unknown"
            /\ ~IsAutoReplyTrigger(bo.result.content)
            /\ ~bo.replying
            /\ bo.daemon = "robust"
                 => \E i \in DOMAIN pub.receivedDMs : pub.receivedDMs[i] = bo.id
            /\ bo.daemon = "standalone" => bo.id \in PassedOn
    /\ pub.program = "standalone" => stats.decryptedDMs = Cardinality(PassedOn)
    /\ \A id \in DeliveredIds :
         Delivered[id].kind \notin KnownKinds
           => /\ RepliedMark(id) \notin processedEvents
              /\ id \notin disp

\* An event of another kind whose own content holds a trigger word was passed
\* on by the standalone daemon, after an answered direct message.
C30_Witness ==
    /\ ResolvedBy({ "standalone" })
    /\ bo.kind \notin KnownKinds
    /\ IsAutoReplyTrigger(Delivered[bo.id].content.text)
    /\ bo.result.format = "unknown"
    /\ stats.decryptedDMs = 2
    /\ stats.autoReplies = 1

\* The sender field of the message decryptDM returns (standalone daemon).
StandaloneSender(event, privateKey) ==
    IF event.kind \in EnvelopeKinds /\ UnwrapEvent(event, privateKey).unwrapped
    THEN UnwrapEvent(event, privateKey).inner.pubkey
    ELSE event.pubkey

\* sendReply: the key the reply is encrypted for and tagged with.
ReplyRecipient(originalEvent) == originalEvent.pubkey

\* C31: a reply of the standalone daemon to an envelope is encrypted for and
\* addressed to the author of the inner event, not to the key that signed the
\* envelope.
C31_ReplyGoesToInnerAuthor ==
    pub.program = "standalone"
      => \A id \in disp :
           Delivered[id].kind \in EnvelopeKinds
             => ReplyRecipient(Delivered[id])
                  = StandaloneSender(Delivered[id], PRIVATE_KEY_HEX)

\* The marks of a command: its global timestamp and every sender's.
MarksOf(cooldowns, convs, name) ==
    << IF name \in DOMAIN cooldowns THEN cooldowns[name] ELSE Null,
       [ s \in Senders |->
           IF s \in DOMAIN convs THEN convs[s].lastCommandTime[name] ELSE Null ] >>

\* Callback c holds a command that is the earliest entry of the table whose
\* pattern occurs in the text of its event.
HoldsEarliestMatch(c) ==
    LET text == Entry(cb[c].ev).text
    IN  \E j \in 1..Len(CommandTable) :
          /\ CommandTable[j] = cb[c].cmd
          /\ CommandPattern(CommandTable[j]) \in text
          /\ \A i \in 1..(j - 1) : CommandPattern(CommandTable[i]) \notin text

\* C32: the command a callback considers for a message is the earliest entry
\* of the command table that matches it, and a step changes the marks of a
\* command only when it is the handler of exactly that command settling; a
\* message that matches no pattern changes no marks at all.
C32_FirstMatchingCommandOnly ==
    /\ [](\A c \in Callbacks : cb[c].cmd # NoCommand => HoldsEarliestMatch(c))
    /\ [][\A name \in CommandNames :
            MarksOf(commandCooldowns', senderConversations', name)
                # MarksOf(commandCooldowns, senderConversations, name)
              => \E c \in Callbacks :
                   /\ cb[c].pc = "handler"
                   /\ cb[c].cmd = name
                   /\ cb'[c] # cb[c]]_vars

\* A message matching 'help' and 'status' was answered with the result of
\* status, and only status is marked.
C32_Witness ==
    \E c \in Callbacks :
      /\ cb[c].cmd = "status"
      /\ cb[c].reply = "result"
      /\ Cardinality(MatchingCommands(Entry(cb[c].ev).text)) > 1
      /\ DOMAIN commandCooldowns = { "status" }

\* The time since the last global execution of a command, and since the
\* sender's last execution of it; Infinity when there is none.
GlobalElapsed(name) ==
    IF name \in DOMAIN commandCooldowns /\ commandCooldowns[name] # Null
    THEN now - commandCooldowns[name] ELSE Infinity

SenderElapsed(name, s) ==
    IF s \in DOMAIN senderConversations
         /\ senderConversations[s].lastCommandTime[name] # Null
    THEN now - senderConversations[s].lastCommandTime[name] ELSE Infinity

\* The smallest number of whole seconds that covers ms milliseconds.
SecondsCovering(ms) == CHOOSE n \in 0..((ms \div 1000) + 1) :
                          n * 1000 >= ms /\ (n - 1) * 1000 < ms

CooldownStatus(name, s) ==
    IsCommandOnCooldown(commandCooldowns, senderConversations, name, s, now)

C34_NoHousekeepingDuringPass ==
    [][bo' # bo => \A c \in Callbacks : ~InPipeline(c)]_vars

\* C35: also with poll callbacks overlapping, an auto-reply is published to a
\* sender only when no auto-reply was published to that sender during the
\* last CONVERSATION_TIMEOUT_MS.
C35_OneAutoReplyPerWindowInterleaved ==
    [][ \A c \in Callbacks, s \in Senders :
          (AutoReplyPublished(c, s) /\ cb'[c] # cb[c] /\ lastAutoReplyAt[s] # Null)
            => now - lastAutoReplyAt[s] >= CONVERSATION_TIMEOUT_MS ]_vars

\* C36: no two callbacks are inside the handler of the same command at the
\* same time.
C36_NoConcurrentCommandAction ==
    \A c, d \in Callbacks :
      (c # d /\ cb[c].pc = "handler" /\ cb[d].pc = "handler")
        => cb[c].cmd # cb[d].cmd

----------------------------------------------------------------------------
\* The standalone daemon with two onevent callbacks replying at once: two
\* publishWithRetry calls in flight, sharing relayRateLimits

Calls == { 1, 2 }

\* The top of the loop body up to its await: the filter, then the 30 s timer
\* or the attempts handed to Promise.allSettled.
EnterRound(p, attempt, limits, t) ==
    LET available == AvailableRelays(limits, ResultRelays, t)
    IN  IF available = {}
        THEN [ p EXCEPT !.pc = "penalty", !.attempt = attempt, !.attempted = {},
                        !.wakeAt = t + ALL_LIMITED_WAIT_MS ]
        ELSE [ p EXCEPT !.pc = "round", !.attempt = attempt,
                        !.attempted = available, !.wakeAt = 0 ]

\* sendReply of callback k calls publishWithRetry.
SharedCall(k) ==
    /\ pub[k].pc = "idle"
    /\ pub' = [ pub EXCEPT ![k] = EnterRound(IdlePub, 0, relayRateLimits, now) ]
    /\ UNCHANGED << now, relayRateLimits, PublishFrame >>

\* Promise.allSettled of call k resolves: the bookkeeping and the return.
SharedSettles(k, results, r) ==
    /\ pub[k].pc = "round"
    /\ relayRateLimits' =
         ProcessedResults(relayRateLimits, pub[k].attempted, results, r, now)
    /\ pub' = [ pub EXCEPT
                  ![k].pc = "idle",
                  ![k].successCount = SuccessCount(pub[k].attempted, results),
                  ![k].result =
                    IF RoundSucceeds(SuccessCount(pub[k].attempted, results))
                    THEN "true" ELSE "false" ]
    /\ UNCHANGED << now, PublishFrame >>

\* The 30 s timer of call k fires: continue, attempt++, the loop test.
SharedWakes(k) ==
    /\ pub[k].pc = "penalty"
    /\ now >= pub[k].wakeAt
    /\ pub' = [ pub EXCEPT ![k] =
                  IF pub[k].attempt + 1 < MAX_RETRIES
                  THEN EnterRound(pub[k], pub[k].attempt + 1, relayRateLimits, now)
                  ELSE [ pub[k] EXCEPT !.pc = "idle", !.attempt = @ + 1,
                                       !.wakeAt = 0, !.result = "false" ] ]
    /\ UNCHANGED << now, relayRateLimits, PublishFrame >>

NextShared ==
    \/ \E k \in Calls : SharedCall(k)
    \/ \E k \in Calls, results \in [ ResultRelays -> RelayOutcomes ],
          r \in JitterSamples : SharedSettles(k, results, r)
    \/ \E k \in Calls : SharedWakes(k)
    \/ \E d \in PublishSteps : Tick(d)

InitShared ==
    /\ feed = << >>
    /\ now = StartTime
    /\ ticks = 0
    /\ processedEvents = {}
    /\ relayRateLimits = EmptyMap
    /\ senderConversations = EmptyMap
    /\ repliedEvents = {}
    /\ commandCooldowns = EmptyMap
    /\ stats = [ totalDMs |-> 0, decryptedDMs |-> 0, autoReplies |-> 0,
                 autoReplyErrors |-> 0 ]
    /\ cb = [ c \in Callbacks |-> IdleCb ]
    /\ running = TRUE
    /\ pipelineRuns = << >>
    /\ decryptLog = << >>
    /\ lastFailure = NoFailure
    /\ lastAutoReplyAt = [ s \in Senders |-> Null ]
    /\ disp = IdleDisp
    /\ lastRun = [ name \in CommandNames |-> NoRun ]
    /\ pub = [ k \in Calls |-> IdlePub ]
    /\ bo = NoBackoff

SpecShared == InitShared /\ [][NextShared]_vars

\* C37: with several publishWithRetry calls in flight, a relay that is
\* permanently excluded stays permanently excluded.
C37_PermanentStaysExcluded ==
    [][\A url \in ResultRelays :
         IsPermanent(relayRateLimits, url) => IsPermanent(relayRateLimits', url)]_vars

\* C38: whenever a sender's timestamp of a command is inside the cooldown
\* window, the command has a global timestamp that is not earlier, so the
\* global gate blocks and isCommandOnCooldown does not report 'sender'.
C38_SenderGateNeverDecides ==
    \A name \in CommandNames, s \in Senders :
      /\ SenderElapsed(name, s) < COMMAND_COOLDOWNS[name]
           => /\ name \in DOMAIN commandCooldowns
              /\ senderConversations[s].lastCommandTime[name]
                   <= commandCooldowns[name]
              /\ GlobalElapsed(name) < COMMAND_COOLDOWNS[name]
      /\ CooldownStatus(name, s).reason # "sender"

\* A command was refused while the timestamp of the sender who executed it
\* is inside the window, and for that sender the global gate is the one that
\* blocks.
C38_Witness ==
    \E c \in Callbacks, s \in Senders :
      /\ cb[c].reply = "cooldown"
      /\ SenderElapsed(cb[c].cmd, s) < COMMAND_COOLDOWNS[cb[c].cmd]
      /\ CooldownStatus(cb[c].cmd, s).reason = "global"

AutoReplyGivenUp(c) ==
    /\ cb[c].pc = "publish"
    /\ cb[c].reply = "auto"
    /\ cb'[c] # cb[c]
    /\ lastFailure' = [ kind |-> "publish", ev |-> cb[c].ev ]

\* C40: when the publish of an auto-reply has failed after all retries, the
\* conversation map, repliedEvents and the reply counters are as before, the event
\* is marked as seen and entered the pipeline once, and every trigger of the
\* same sender that the daemon has not taken up before this step would pass
\* shouldSendAutoReply.
C40_FailedAutoReplyLeavesNoTrace ==
    [][\A c \in Callbacks :
         AutoReplyGivenUp(c)
           => /\ senderConversations' = senderConversations
              /\ repliedEvents' = repliedEvents
              /\ stats'.totalRepliesSent = stats.totalRepliesSent
              /\ stats'.autoRepliesSent = stats.autoRepliesSent
              /\ stats'.commandsExecuted = stats.commandsExecuted
              /\ lastAutoReplyAt' = lastAutoReplyAt
              /\ cb[c].ev \in processedEvents'
              /\ pipelineRuns'[cb[c].ev] = 1
              /\ \A e \in EventIds \ processedEvents :
                   EventPubkey(e) = EventPubkey(cb[c].ev)
                     => ShouldSendAutoReply(repliedEvents', senderConversations', e,
                                            EventPubkey(e), now').send]_vars

\* After the auto-reply to one trigger was given up, a later trigger of the
\* same sender was answered.
C40_Witness ==
    /\ lastFailure.kind = "publish"
    /\ lastFailure.ev \notin repliedEvents
    /\ pipelineRuns[lastFailure.ev] = 1
    /\ HasTrigger(Entry(lastFailure.ev).text)
    /\ DetectCommand(Entry(lastFailure.ev).text) = NoCommand
    /\ \E e \in repliedEvents :
         /\ e > lastFailure.ev
         /\ EventPubkey(e) = EventPubkey(lastFailure.ev)

====
